---- MODULE Spec2Model ----
(***************************************************************************)
(* A model of the file organizer engine of src/organizer.py: the class     *)
(* FileOrganizer (rule compilation, organize_files, undo_organization and  *)
(* the JSON history stack), over an explicit model of the directory tree,  *)
(* and of the part of FileOrganizerGUI that starts and awaits the worker   *)
(* threads.                                                                *)
(*                                                                         *)
(* Strings are sequences of one-character strings, so that strip, split,   *)
(* lower, the substring test and pathlib's suffix are computed and not     *)
(* assumed.  A path is the sequence of its segment names below the managed *)
(* directory; the managed directory itself is the empty path.  The         *)
(* platform is POSIX (os.name # "nt"): _set_file_hidden is then a no-op.   *)
(***************************************************************************)
EXTENDS Integers, Sequences, FiniteSets, TLC

VARIABLES
    files,         \* regular files below the managed directory: path -> mtime
    dirs,          \* directories below the managed directory (set of paths)
    history_file,  \* content of .organizer_history.json: [kind, stack]
    eng,           \* per engine instance: the call in progress and its locals
    progress,      \* per engine instance: values passed to progress_callback
    done,          \* per engine instance: summary of the last finished call
    prev,          \* per engine instance: summary of the call before that
    calls,         \* number of calls started so far
    faults,        \* number of I/O faults the environment has injected so far
    arg,           \* input of the pure function under check
    ret,           \* its result
    gui            \* the window of FileOrganizerGUI and its worker threads

vars == <<files, dirs, history_file, eng, progress, done, prev, calls, faults, arg, ret,
          gui>>

engineVars == <<files, dirs, history_file, eng, progress, done, prev, calls, faults>>

-----------------------------------------------------------------------------
(* Strings                                                                 *)

Uppers == <<"A","B","C","D","E","F","G","H","I","J","K","L","M",
            "N","O","P","Q","R","S","T","U","V","W","X","Y","Z">>
Lowers == <<"a","b","c","d","e","f","g","h","i","j","k","l","m",
            "n","o","p","q","r","s","t","u","v","w","x","y","z">>

\* The whitespace characters str.strip() removes, within the model's alphabet.
Whitespace == {" "}

LowerChar(c) ==
    IF \E i \in DOMAIN Uppers : Uppers[i] = c
    THEN Lowers[CHOOSE i \in DOMAIN Uppers : Uppers[i] = c]
    ELSE c

\* str.lower()
Lower(s) == [i \in 1..Len(s) |-> LowerChar(s[i])]

RECURSIVE LStrip(_)
LStrip(s) == IF s # <<>> /\ Head(s) \in Whitespace THEN LStrip(Tail(s)) ELSE s

RECURSIVE RStrip(_)
RStrip(s) ==
    IF s # <<>> /\ s[Len(s)] \in Whitespace
    THEN RStrip(SubSeq(s, 1, Len(s) - 1))
    ELSE s

\* str.strip()
Strip(s) == RStrip(LStrip(s))

\* str.split(sep): always at least one piece; "".split(";") = [""]
RECURSIVE Split(_, _)
Split(s, sep) ==
    IF \E i \in 1..Len(s) : s[i] = sep
    THEN LET i == CHOOSE k \in 1..Len(s) :
                      s[k] = sep /\ \A j \in 1..(k - 1) : s[j] # sep
         IN  <<SubSeq(s, 1, i - 1)>> \o Split(SubSeq(s, i + 1, Len(s)), sep)
    ELSE <<s>>

\* `sub in s` for strings
Contains(sub, s) ==
    \E i \in 0..(Len(s) - Len(sub)) : SubSeq(s, i + 1, i + Len(sub)) = sub

\* All strings over the alphabet `chars` of length at most n.
RECURSIVE StringsUpTo(_, _)
StringsUpTo(chars, n) ==
    IF n = 0 THEN {<<>>}
    ELSE LET shorter == StringsUpTo(chars, n - 1)
         IN  shorter \cup {Append(s, c) : s \in shorter, c \in chars}

-----------------------------------------------------------------------------
(* Rule engine: _build_keyword_map.  A Python dict keeps insertion order   *)
(* and assigning to a key it already holds keeps that key's position, so   *)
(* the map is a sequence of <<key, folder>> pairs without repeated keys.   *)

DictKeys(d) == {d[i][1] : i \in DOMAIN d}

DictGet(d, k) == d[CHOOSE i \in DOMAIN d : d[i][1] = k][2]

\* A dictionary that keeps the first value stored under a key
DictSetKeepFirst(d, k, v) ==
    IF k \in DictKeys(d) THEN d ELSE Append(d, <<k, v>>)

\* d[k] = v: a key already present keeps its place and takes the new value
DictSet(d, k, v) ==
    IF k \in DictKeys(d)
    THEN [i \in DOMAIN d |-> IF d[i][1] = k THEN <<k, v>> ELSE d[i]]
    ELSE Append(d, <<k, v>>)

\* [g.strip() for g in rules.split(';')]
StrippedParts(rules) ==
    LET parts == Split(rules, ";")
    IN  [i \in DOMAIN parts |-> Strip(parts[i])]

\* [k.strip().lower() for k in group.split(',') if k.strip()]
GroupKeys(group) ==
    LET parts == Split(group, ",")
        kept  == SelectSeq(parts, LAMBDA k : Strip(k) # <<>>)
    IN  [i \in DOMAIN kept |-> Lower(Strip(kept[i]))]

\* The inner loop: for key in keys: keyword_map[key] = folder
RECURSIVE AddKeys(_, _, _)
AddKeys(d, keys, folder) ==
    IF keys = <<>> THEN d
    ELSE AddKeys(DictSet(d, Head(keys), folder), Tail(keys), folder)

\* The outer loop over enumerate(keyword_groups), from group i on.
RECURSIVE AddGroups(_, _, _, _)
AddGroups(d, groups, folders, i) ==
    IF i > Len(groups) THEN d
    ELSE AddGroups(AddKeys(d, GroupKeys(groups[i]), folders[i]), groups, folders, i + 1)

\* A length test that lets surplus folder names pass
RuleMismatchLenient(keyword_rules, folder_rules) ==
    Len(StrippedParts(keyword_rules)) > Len(StrippedParts(folder_rules))

\* len(keyword_groups) != len(folder_names)
RuleMismatch(keyword_rules, folder_rules) ==
    Len(StrippedParts(keyword_rules)) # Len(StrippedParts(folder_rules))

\* not keyword_rules or not folder_rules  (the raw strings, not the stripped ones)
RulesEmpty(keyword_rules, folder_rules) ==
    keyword_rules = <<>> \/ folder_rules = <<>>

\* The result of _build_keyword_map: the ValueError it raises, or the map.
BuildKeywordMap(keyword_rules, folder_rules) ==
    IF RuleMismatch(keyword_rules, folder_rules)
    THEN [error |-> "Rule mismatch", map |-> <<>>]
    ELSE IF RulesEmpty(keyword_rules, folder_rules)
    THEN [error |-> "Rules empty", map |-> <<>>]
    ELSE [error |-> "none",
          map   |-> AddGroups(<<>>, StrippedParts(keyword_rules),
                              StrippedParts(folder_rules), 1)]

-----------------------------------------------------------------------------
(* Paths                                                                   *)

\* pathlib's `directory / text`: the segments of text, empty ones dropped.
\* The empty text gives the directory itself.
PathOf(text) ==
    SelectSeq(Split(text, "/"), LAMBDA seg : seg # <<>> /\ seg # <<".">>)

\* Path.parent, for a path below the managed directory
Parent(p) == SubSeq(p, 1, Len(p) - 1)

\* Path.name
Name(p) == p[Len(p)]

IsPrefix(p, q) == Len(p) <= Len(q) /\ SubSeq(q, 1, Len(p)) = p

\* The non-empty prefixes of p: the directories mkdir(parents=True) ensures.
Prefixes(p) == {SubSeq(p, 1, k) : k \in 1..Len(p)}

\* Path.suffix: the part of the name from its last dot on, when that dot is
\* neither the first nor the last character; the empty string otherwise.
Suffix(name) ==
    IF \E i \in 1..Len(name) : name[i] = "."
    THEN LET i == CHOOSE k \in 1..Len(name) :
                      name[k] = "." /\ \A j \in (k + 1)..Len(name) : name[j] # "."
         IN  IF 1 < i /\ i < Len(name) THEN SubSeq(name, i, Len(name)) ELSE <<>>
    ELSE <<>>

-----------------------------------------------------------------------------
(* Classification: the three branches of the loop of organize_files.  A    *)
(* classification is [some, path]: whether the file gets a destination,    *)
(* and the destination folder below the managed directory.                 *)

NoDestination == [some |-> FALSE, path |-> <<>>]

Destination(p) == [some |-> TRUE, path |-> p]

Other == <<"o","t","h","e","r">>

\* The folder name without the .lower()
ExtFolderNameKeepCase(name) ==
    LET extension == Suffix(name)
    IN  IF extension # <<>> THEN Tail(extension) ELSE Other

\* extension[1:].lower() if extension else "other"
ExtFolderName(name) ==
    LET extension == Suffix(name)
    IN  IF extension # <<>> THEN Lower(Tail(extension)) ELSE Other

ClassifyByExtension(name) == Destination(PathOf(ExtFolderName(name)))

\* A loop without the break: the last key that matches decides
ClassifyByKeywordLast(name, keyword_map) ==
    LET hits == {i \in DOMAIN keyword_map : Contains(keyword_map[i][1], Lower(name))}
    IN  IF hits = {} THEN NoDestination
        ELSE LET last == CHOOSE i \in hits : \A j \in hits : j <= i
             IN  Destination(PathOf(keyword_map[last][2]))

\* The first key, in the map's own order, that the lowercase name contains.
ClassifyByKeyword(name, keyword_map) ==
    LET hits == {i \in DOMAIN keyword_map : Contains(keyword_map[i][1], Lower(name))}
    IN  IF hits = {} THEN NoDestination
        ELSE LET first == CHOOSE i \in hits : \A j \in hits : i <= j
             IN  Destination(PathOf(keyword_map[first][2]))

DigitChars == <<"0","1","2","3","4","5","6","7","8","9">>

\* f"{n}" for n >= 0
RECURSIVE Decimal(_)
Decimal(n) ==
    IF n < 10 THEN <<DigitChars[n + 1]>>
    ELSE Append(Decimal(n \div 10), DigitChars[(n % 10) + 1])

\* A number format without the zero padding
Pad2NoPadding(n) == Decimal(n)

\* f"{n:02d}" for n >= 0
Pad2(n) == IF n < 10 THEN <<"0">> \o Decimal(n) ELSE Decimal(n)

Granularities == {"Decade", "Year", "Month", "Day", "Hour", "Minute", "Second"}

\* f"{m_time.year // 10 * 10}s"
DecadeName(m) == Append(Decimal((m.year \div 10) * 10), "s")

\* The nested layout: parts, one path segment each
NestedParts(m, granularity) ==
    (IF granularity = "Decade" THEN <<DecadeName(m)>> ELSE <<Decimal(m.year)>>)
    \o (IF granularity \in {"Month", "Day", "Hour", "Minute", "Second"}
        THEN <<Pad2(m.month)>> ELSE <<>>)
    \o (IF granularity \in {"Day", "Hour", "Minute", "Second"}
        THEN <<Pad2(m.day)>> ELSE <<>>)
    \o (IF granularity \in {"Hour", "Minute", "Second"}
        THEN <<Append(Pad2(m.hour), "h")>> ELSE <<>>)
    \o (IF granularity \in {"Minute", "Second"}
        THEN <<Append(Pad2(m.minute), "m")>> ELSE <<>>)
    \o (IF granularity = "Second"
        THEN <<Append(Pad2(m.second), "s")>> ELSE <<>>)

\* The flat layout: one folder name; empty for an unknown granularity
FlatName(m, granularity) ==
    LET base_name == Decimal(m.year) \o <<"-">> \o Pad2(m.month) \o <<"-">> \o Pad2(m.day)
        hh == Append(Pad2(m.hour), "h")
        mm == Append(Pad2(m.minute), "m")
        ss == Append(Pad2(m.second), "s")
    IN  CASE granularity = "Decade" -> DecadeName(m)
          [] granularity = "Year"   -> Decimal(m.year)
          [] granularity = "Month"  -> Decimal(m.year) \o <<"-">> \o Pad2(m.month)
          [] granularity = "Day"    -> base_name
          [] granularity = "Hour"   -> base_name \o <<"_">> \o hh
          [] granularity = "Minute" -> base_name \o <<"_">> \o hh \o mm
          [] granularity = "Second" -> base_name \o <<"_">> \o hh \o mm \o ss
          [] OTHER -> <<>>

ClassifyByTime(m, granularity, create_parent_folders) ==
    IF create_parent_folders
    THEN Destination(NestedParts(m, granularity))
    ELSE IF FlatName(m, granularity) # <<>>
         THEN Destination(PathOf(FlatName(m, granularity)))
         ELSE NoDestination

\* The destination of one file under the policy of the call.
Classify(name, mtime, policy, keyword_map) ==
    CASE policy.sort_mode = "By Keyword"   -> ClassifyByKeyword(name, keyword_map)
      [] policy.sort_mode = "By Time"      ->
             ClassifyByTime(mtime, policy.granularity, policy.create_parent_folders)
      [] policy.sort_mode = "By Extension" -> ClassifyByExtension(name)
      [] OTHER -> NoDestination

-----------------------------------------------------------------------------
(* The directory tree.  fs = [files, dirs]: files maps the path of every   *)
(* regular file to its modification time, dirs is the set of directories;  *)
(* the managed directory (the empty path) always exists.                   *)

IsDir(fs, p) == p = <<>> \/ p \in fs.dirs

IsFile(fs, p) == p \in DOMAIN fs.files

Exists(fs, p) == IsDir(fs, p) \/ IsFile(fs, p)

\* any(folder.iterdir())
Children(fs, p) ==
    {q \in (DOMAIN fs.files) \cup fs.dirs : Len(q) = Len(p) + 1 /\ IsPrefix(p, q)}

\* Path.mkdir(parents=True, exist_ok=True): fails when a regular file is in
\* the way, and then creates nothing; otherwise every missing ancestor and
\* the folder itself exist afterwards.
Mkdir(fs, folder) ==
    IF \E q \in Prefixes(folder) : IsFile(fs, q)
    THEN [ok |-> FALSE, fs |-> fs]
    ELSE [ok |-> TRUE, fs |-> [fs EXCEPT !.dirs = @ \cup Prefixes(folder)]]

\* q with its prefix src replaced by dst
Rebase(q, src, dst) == dst \o SubSeq(q, Len(src) + 1, Len(q))

\* os.rename(src, dst), with the copy-and-delete fallback of shutil.move
\* giving the same outcome: a regular file replaces a regular file at dst; a
\* directory moves with its subtree to a dst that does not exist yet.
Rename(fs, src, dst) ==
    CASE ~Exists(fs, src) -> [ok |-> FALSE, error |-> "FileNotFoundError", fs |-> fs]
      [] src = dst -> [ok |-> TRUE, error |-> "none", fs |-> fs]
      [] ~IsDir(fs, Parent(dst)) -> [ok |-> FALSE, error |-> "FileNotFoundError", fs |-> fs]
      [] IsFile(fs, src) /\ ~IsDir(fs, dst) ->
            [ok |-> TRUE, error |-> "none",
             fs |-> [fs EXCEPT !.files =
                        [q \in ((DOMAIN fs.files) \ {src}) \cup {dst} |->
                            IF q = dst THEN fs.files[src] ELSE fs.files[q]]]]
      [] IsDir(fs, src) /\ ~Exists(fs, dst) /\ ~IsPrefix(src, dst) ->
            [ok |-> TRUE, error |-> "none",
             fs |-> [files |->
                        [q \in {IF IsPrefix(src, f) THEN Rebase(f, src, dst) ELSE f :
                                    f \in DOMAIN fs.files} |->
                            IF IsPrefix(dst, q)
                            THEN fs.files[Rebase(q, dst, src)]
                            ELSE fs.files[q]],
                     dirs |->
                        {IF IsPrefix(src, d) THEN Rebase(d, src, dst) ELSE d :
                            d \in fs.dirs}]]
      [] OTHER -> [ok |-> FALSE, error |-> "Error", fs |-> fs]

\* shutil.move(src, dst) without the rule that a directory at dst receives
\* the source inside it.
ShutilMoveNoDescent(fs, src, dst) == Rename(fs, src, dst)

\* shutil.move(src, dst): when dst is a directory the source is moved INTO
\* it, unless it is the same file; the path inside it must not exist.
ShutilMove(fs, src, dst) ==
    IF IsDir(fs, dst)
    THEN IF src = dst
         THEN Rename(fs, src, dst)
         ELSE IF Exists(fs, Append(dst, Name(src)))
              THEN [ok |-> FALSE, error |-> "Error", fs |-> fs]
              ELSE Rename(fs, src, Append(dst, Name(src)))
    ELSE Rename(fs, src, dst)

\* A _move_file that records the file before it moves it
MoveFileRecordsFirst(fs, batch, name, destination_folder, fault) ==
    LET made == Mkdir(fs, destination_folder)
        destination_path == Append(destination_folder, name)
        moved == ShutilMove(made.fs, <<name>>, destination_path)
        recorded == Append(batch, <<(<<name>>), destination_path>>)
    IN  IF ~made.ok
        THEN [ok |-> FALSE, fs |-> fs, batch |-> batch]
        ELSE IF fault = "move" \/ ~moved.ok
        THEN [ok |-> FALSE, fs |-> made.fs, batch |-> recorded]
        ELSE [ok |-> TRUE, fs |-> moved.fs, batch |-> recorded]

\* _move_file(item, destination_folder, history_list) for the file `name` of
\* the managed directory.  mkdir comes first and fails when a regular file
\* is in the way.  fault is the I/O error the environment injects: "move"
\* (shutil.move raises after the folder was created, as for a file that is
\* locked or has vanished) or "none".
MoveFile(fs, batch, name, destination_folder, fault) ==
    LET made == Mkdir(fs, destination_folder)
        destination_path == Append(destination_folder, name)
        moved == ShutilMove(made.fs, <<name>>, destination_path)
    IN  IF ~made.ok
        THEN [ok |-> FALSE, fs |-> fs, batch |-> batch]
        ELSE IF fault = "move" \/ ~moved.ok
        THEN [ok |-> FALSE, fs |-> made.fs, batch |-> batch]
        ELSE [ok |-> TRUE, fs |-> moved.fs,
              batch |-> Append(batch, <<(<<name>>), destination_path>>)]

-----------------------------------------------------------------------------
(* The history file .organizer_history.json.  kind is "absent" (no file),  *)
(* "corrupt" (not valid JSON) or "list" (a JSON array, the stack).         *)

HistoryName == <<".","o","r","g","a","n","i","z","e","r","_",
                 "h","i","s","t","o","r","y",".","j","s","o","n">>

ConfigName == <<".","o","r","g","a","n","i","z","e","r","_",
                "c","o","n","f","i","g",".","j","s","o","n">>

NoHistory == [kind |-> "absent", stack |-> <<>>]

CorruptHistory == [kind |-> "corrupt", stack |-> <<>>]

HistoryOf(stack) == [kind |-> "list", stack |-> stack]

\* A file holding valid JSON whose top-level value is no array, such as
\* {"history": [...]}: `stack` is what the value holds inside.
NonArrayHistory(inside) == [kind |-> "object", stack |-> inside]

\* A loader without the isinstance(stack, list) test
LoadHistoryStackAnyValue(h, fault) ==
    IF h.kind = "absent" THEN <<>>
    ELSE IF fault = "read" THEN <<>>
    ELSE IF h.kind \in {"list", "object"} THEN h.stack
    ELSE <<>>

\* A loader that finds no history in any file
LoadHistoryStackForgets(h, fault) == <<>>

\* _load_history_stack(): the empty stack when the file is missing, is not
\* valid JSON, or cannot be read (fault = "read").
LoadHistoryStack(h, fault) ==
    IF h.kind = "absent" THEN <<>>
    ELSE IF fault = "read" THEN <<>>
    ELSE IF h.kind = "list" THEN h.stack
    ELSE <<>>

\* open(history_file, 'w') then json.dump(stack, f): fault "open" leaves the
\* file as it was, fault "dump" leaves a truncated file that is no JSON.
WriteHistory(h, stack, fault) ==
    CASE fault = "open" -> h
      [] fault = "dump" -> CorruptHistory
      [] OTHER -> HistoryOf(stack)

\* A save step that writes the empty array where the file is to be removed
RemoveHistoryWritesEmpty(h, fault) == HistoryOf(<<>>)

\* os.remove(history_file): raises when the file is missing or on a fault;
\* either way the caller logs it and goes on.
RemoveHistory(h, fault) ==
    IF fault = "remove" THEN h ELSE NoHistory

-----------------------------------------------------------------------------
(* Folder cleanup of undo_organization                                     *)

\* A walk that removes a folder without looking into it, as a recursive
\* delete would: what the folder held goes with it.
RECURSIVE WalkUpAnyFolder(_, _, _)
WalkUpAnyFolder(fs, current_folder, failing) ==
    IF current_folder = <<>> \/ ~Exists(fs, current_folder) THEN fs
    ELSE IF ~IsDir(fs, current_folder) THEN fs
    ELSE IF current_folder \in failing THEN fs
    ELSE WalkUpAnyFolder(
             [files |-> [q \in {f \in DOMAIN fs.files : ~IsPrefix(current_folder, f)}
                            |-> fs.files[q]],
              dirs |-> {d \in fs.dirs : ~IsPrefix(current_folder, d)}],
             Parent(current_folder), failing)

\* The while loop from one collected folder upwards.  rmdir raises for the
\* folders in `failing`; iterdir raises for a path that is a regular file.
RECURSIVE WalkUp(_, _, _)
WalkUp(fs, current_folder, failing) ==
    IF current_folder = <<>> \/ ~Exists(fs, current_folder) THEN fs
    ELSE IF ~IsDir(fs, current_folder) THEN fs
    ELSE IF Children(fs, current_folder) # {} THEN fs
    ELSE IF current_folder \in failing THEN fs
    ELSE WalkUp([fs EXCEPT !.dirs = @ \ {current_folder}], Parent(current_folder), failing)

\* for folder in sorted_folders: ...
RECURSIVE CleanupFolders(_, _, _)
CleanupFolders(fs, sorted_folders, failing) ==
    IF sorted_folders = <<>> THEN fs
    ELSE CleanupFolders(WalkUp(fs, Head(sorted_folders), failing),
                        Tail(sorted_folders), failing)

\* The orders in which a set can be enumerated.
Orders(S) ==
    {order \in [1..Cardinality(S) -> S] :
        \A a, b \in 1..Cardinality(S) : a # b => order[a] # order[b]}

\* sorted(list(folders_to_check), key=lambda p: len(p.parts), reverse=True):
\* deepest first; the order among folders of equal depth is that of the set.
SortedFolders(folders) ==
    {order \in Orders(folders) :
        \A a, b \in DOMAIN order : a < b => Len(order[a]) >= Len(order[b])}

-----------------------------------------------------------------------------
(* Bounds and inputs of the engine model                                   *)

\* Calls (organize or undo) started in one behaviour
MaxCalls == 2

\* I/O faults the environment injects in one behaviour
MaxFaults == 1

Engines == {1, 2}

\* The engine instance of the sequential specification
MainEngines == {1}

\* File names of the managed directory: "txt" has no extension and is also
\* the extension folder of "a.TXT".
FileNames == { <<"t","x","t">>, <<"a",".","T","X","T">> }

MTimes == { [year |-> 2024, month |-> 3, day |-> 15, hour |-> 9, minute |-> 5, second |-> 7],
            [year |-> 2024, month |-> 11, day |-> 2, hour |-> 23, minute |-> 59, second |-> 0] }

\* The modification times a file of the managed directory may have: "txt"
\* was last written in March, any other file in November.
MTimesOf(name) ==
    IF name = <<"t","x","t">> THEN {m \in MTimes : m.month = 3}
    ELSE {m \in MTimes : m.month = 11}

\* Keyword rule strings: <<keyword_rules, folder_rules>>
RulePairs ==
    { << <<"a",","," ","B",";"," ","t">>, <<"X",";"," ","Y">> >>,   \* "a, B; t" / "X; Y"
      << <<"a",";","b">>, <<"X",";","Y",";","Z">> >>,                \* 2 groups, 3 folders
      << <<"a">>, <<" ">> >>,                                        \* folder of spaces
      << <<" ">>, <<"X">> >> }                                       \* keywords of spaces

\* Granularity and layout of the By Time calls
TimeLayouts == { <<"Day", TRUE>> }

Policy(sort_mode, granularity, keyword_rules, folder_rules, create_parent_folders) ==
    [sort_mode |-> sort_mode, granularity |-> granularity,
     keyword_rules |-> keyword_rules, folder_rules |-> folder_rules,
     create_parent_folders |-> create_parent_folders]

NoPolicy == Policy("none", "Year", <<>>, <<>>, FALSE)

\* The arguments of organize_files
Policies ==
    {Policy("By Extension", "Year", <<>>, <<>>, FALSE)}
    \cup {Policy("By Time", t[1], <<>>, <<>>, t[2]) : t \in TimeLayouts}
    \cup {Policy("By Keyword", "Year", r[1], r[2], FALSE) : r \in RulePairs}

-----------------------------------------------------------------------------
(* Engine state                                                            *)

FS == [files |-> files, dirs |-> dirs]

CountResult(n) == [kind |-> "count", n |-> n]

ValueErrorResult == [kind |-> "ValueError", n |-> 0]

NoResult == [kind |-> "none", n |-> 0]

\* The locals of a call; pc is the position of the call:
\*   "idle", "files" (loop of organize), "load", "write" (saving the batch),
\*   "records" (loop of undo), "cleanup", "save"
\* overlapped tells whether a call of another engine instance on the same
\* directory was under way at some time during this call.
IdleEngine ==
    [pc |-> "idle", op |-> "none", policy |-> NoPolicy, keyword_map |-> <<>>,
     files_to_process |-> <<>>, index |-> 0, total_files |-> 0,
     current_batch_history |-> <<>>, history_stack |-> <<>>,
     last_batch |-> <<>>, files_undone |-> 0, folders_to_check |-> {},
     pre |-> [files |-> <<>>, dirs |-> {}, history_file |-> NoHistory],
     faulted |-> {}, outcomes |-> <<>>, overlapped |-> FALSE]

\* The summary of a call that has returned: what it was given, what it
\* returned, the state it found, the faults it met, and for each file (or
\* record) it went through, in order, what became of it: "moved",
\* "skipped" (no destination) or "failed" for a file, "restored" or "failed"
\* for a record.
NoCall ==
    [op |-> "none", policy |-> NoPolicy, result |-> NoResult, batch |-> <<>>,
     pre |-> [files |-> <<>>, dirs |-> {}, history_file |-> NoHistory],
     faulted |-> {}, files_to_process |-> <<>>, outcomes |-> <<>>,
     overlapped |-> FALSE]

Snapshot == [files |-> files, dirs |-> dirs, history_file |-> history_file]

Summary(e, result, batch) ==
    [op |-> e.op, policy |-> e.policy, result |-> result,
     batch |-> batch, files_to_process |-> e.files_to_process,
     outcomes |-> e.outcomes, pre |-> e.pre, faulted |-> e.faulted,
     overlapped |-> e.overlapped]

\* The call of engine i returns (or raises): its summary is recorded.
Finish(i, e, result, batch) ==
    /\ done' = [done EXCEPT ![i] = Summary(e, result, batch)]
    /\ prev' = [prev EXCEPT ![i] = done[i]]
    /\ eng' = [eng EXCEPT ![i] = IdleEngine]

\* A call of another engine instance is under way.
Overlapping(i) == \E k \in Engines \ {i} : eng[k].pc # "idle"

\* The call of engine i goes on with the locals e; the calls under way on
\* the other instances overlap with it from now on.
Enter(i, e) ==
    [k \in Engines |->
        IF k = i THEN e
        ELSE IF eng[k].pc # "idle" THEN [eng[k] EXCEPT !.overlapped = TRUE]
        ELSE eng[k]]

\* The faults the environment may still inject, among `kinds`; a call keeps
\* in `faulted` the kinds of the faults it met.
Faults(kinds) == {"none"} \cup (IF faults < MaxFaults THEN kinds ELSE {})

Count(fault) == IF fault = "none" THEN faults ELSE faults + 1

Met(faulted, fault) == IF fault = "none" THEN faulted ELSE faulted \cup {fault}

\* The greatest common divisor, to keep a percentage as an exact fraction
RECURSIVE GCD(_, _)
GCD(a, b) == IF b = 0 THEN a ELSE GCD(b, a % b)

\* A percentage that counts the files before the current one only
PercentageBehind(current, total) ==
    LET g == GCD((current - 1) * 100, total)
    IN  [num |-> ((current - 1) * 100) \div g, den |-> total \div g]

\* (current / total) * 100, as the fraction num/den in lowest terms
Percentage(current, total) ==
    LET g == GCD(current * 100, total)
    IN  [num |-> (current * 100) \div g, den |-> total \div g]

\* _report_progress(current, total): the calls the callback has received,
\* with one more when total > 0 (every engine is given a callback)
ReportProgress(received, current, total) ==
    IF total > 0 THEN Append(received, Percentage(current, total)) ELSE received

-----------------------------------------------------------------------------
(* organize_files                                                          *)

\* A collection that takes every regular file the listing gives
FilesToProcessAll(fs, h) ==
    {Name(q) : q \in {f \in DOMAIN fs.files : Len(f) = 1}}
        \cup (IF h.kind = "absent" THEN {} ELSE {HistoryName})

\* The files organize_files collects from source_directory.iterdir(); the
\* history file is listed too when it exists.
FilesToProcess(fs, h) ==
    {name \in {Name(q) : q \in {f \in DOMAIN fs.files : Len(f) = 1}}
                \cup (IF h.kind = "absent" THEN {} ELSE {HistoryName}) :
        name \notin {HistoryName, ConfigName}}

\* Steps 1 and 2: compile the rules, collect the files.
OrganizeBegin(i) ==
    /\ eng[i].pc = "idle"
    /\ calls < MaxCalls
    /\ calls' = calls + 1
    /\ progress' = [progress EXCEPT ![i] = <<>>]
    /\ \E policy \in Policies :
         LET built == IF policy.sort_mode = "By Keyword"
                      THEN BuildKeywordMap(policy.keyword_rules, policy.folder_rules)
                      ELSE [error |-> "none", map |-> <<>>]
             e == [IdleEngine EXCEPT !.op = "organize", !.policy = policy,
                                     !.keyword_map = built.map, !.pre = Snapshot,
                                     !.overlapped = Overlapping(i)]
         IN  IF policy.sort_mode = "By Keyword" /\ (built.error # "none" \/ built.map = <<>>)
             THEN Finish(i, e, ValueErrorResult, <<>>)
             ELSE \E order \in Orders(FilesToProcess(FS, history_file)) :
                    IF order = <<>>
                    THEN Finish(i, e, CountResult(0), <<>>)
                    ELSE /\ eng' = Enter(i,
                                [e EXCEPT !.pc = "files", !.files_to_process = order,
                                          !.total_files = Len(order)])
                         /\ UNCHANGED <<done, prev>>
    /\ UNCHANGED <<files, dirs, history_file, faults, arg, ret, gui>>

\* A loop that rewrites the history file as it goes, with the records so far
OrganizeFileSavesEach(i) ==
    LET e == eng[i]
        item == e.files_to_process[e.index + 1]
        there == IsFile(FS, <<item>>)
        where == IF e.policy.sort_mode = "By Time" /\ ~there
                 THEN NoDestination
                 ELSE Classify(item, IF there THEN files[<<item>>] ELSE CHOOSE m \in MTimes : TRUE,
                               e.policy, e.keyword_map)
    IN  /\ e.pc = "files"
        /\ \E fault \in Faults(IF where.some THEN {"move"} ELSE {}) :
             LET r == IF where.some
                      THEN MoveFile(FS, e.current_batch_history, item, where.path, fault)
                      ELSE [ok |-> FALSE, fs |-> FS, batch |-> e.current_batch_history]
             IN  /\ files' = r.fs.files
                 /\ dirs' = r.fs.dirs
                 /\ faults' = Count(fault)
                 /\ eng' = [eng EXCEPT ![i] =
                        [e EXCEPT !.current_batch_history = r.batch,
                                  !.index = e.index + 1,
                                  !.outcomes = Append(@, IF ~where.some THEN "skipped"
                                                         ELSE IF r.ok THEN "moved"
                                                         ELSE "failed"),
                                  !.faulted = Met(e.faulted, fault),
                                  !.pc = IF e.index + 1 = e.total_files THEN "load" ELSE "files"]]
        /\ progress' = [progress EXCEPT ![i] = ReportProgress(@, e.index + 1, e.total_files)]
        /\ history_file' =
               IF e.current_batch_history = <<>> THEN history_file
               ELSE HistoryOf(Append(LoadHistoryStack(e.pre.history_file, "none"),
                                     e.current_batch_history))
        /\ UNCHANGED <<done, prev, calls, arg, ret, gui>>

\* Step 3, one iteration: classify the file, move it, report progress.
\* item.stat() of the By Time branch raises when the file is gone.
OrganizeFile(i) ==
    LET e == eng[i]
        item == e.files_to_process[e.index + 1]
        there == IsFile(FS, <<item>>)
        where == IF e.policy.sort_mode = "By Time" /\ ~there
                 THEN NoDestination
                 ELSE Classify(item, IF there THEN files[<<item>>] ELSE CHOOSE m \in MTimes : TRUE,
                               e.policy, e.keyword_map)
    IN  /\ e.pc = "files"
        /\ \E fault \in Faults(IF where.some THEN {"move"} ELSE {}) :
             LET r == IF where.some
                      THEN MoveFile(FS, e.current_batch_history, item, where.path, fault)
                      ELSE [ok |-> FALSE, fs |-> FS, batch |-> e.current_batch_history]
             IN  /\ files' = r.fs.files
                 /\ dirs' = r.fs.dirs
                 /\ faults' = Count(fault)
                 /\ eng' = [eng EXCEPT ![i] =
                        [e EXCEPT !.current_batch_history = r.batch,
                                  !.index = e.index + 1,
                                  !.outcomes = Append(@, IF ~where.some THEN "skipped"
                                                         ELSE IF r.ok THEN "moved"
                                                         ELSE "failed"),
                                  !.faulted = Met(e.faulted, fault),
                                  !.pc = IF e.index + 1 = e.total_files THEN "load" ELSE "files"]]
        /\ progress' = [progress EXCEPT ![i] = ReportProgress(@, e.index + 1, e.total_files)]
        /\ UNCHANGED <<history_file, done, prev, calls, arg, ret, gui>>

\* A save step without the test for an empty batch
OrganizeLoadAlways(i) ==
    LET e == eng[i]
    IN  /\ e.pc = "load"
        /\ \E fault \in Faults(IF history_file.kind = "absent" THEN {} ELSE {"read"}) :
              /\ eng' = [eng EXCEPT ![i] =
                    [e EXCEPT !.pc = "write",
                              !.faulted = Met(e.faulted, fault),
                              !.history_stack =
                                  Append(LoadHistoryStack(history_file, fault),
                                         e.current_batch_history)]]
              /\ faults' = Count(fault)
              /\ UNCHANGED <<done, prev>>
        /\ UNCHANGED <<files, dirs, history_file, progress, calls, arg, ret, gui>>

\* Step 4, first half: nothing to save for an empty batch; otherwise load
\* the stack and append the batch to it.
OrganizeLoad(i) ==
    LET e == eng[i]
    IN  /\ e.pc = "load"
        /\ IF e.current_batch_history = <<>>
           THEN /\ Finish(i, e, CountResult(0), <<>>)
                /\ UNCHANGED faults
           ELSE \E fault \in Faults(IF history_file.kind = "absent" THEN {} ELSE {"read"}) :
                  /\ eng' = [eng EXCEPT ![i] =
                        [e EXCEPT !.pc = "write",
                                  !.faulted = Met(e.faulted, fault),
                                  !.history_stack =
                                      Append(LoadHistoryStack(history_file, fault),
                                             e.current_batch_history)]]
                  /\ faults' = Count(fault)
                  /\ UNCHANGED <<done, prev>>
        /\ UNCHANGED <<files, dirs, history_file, progress, calls, arg, ret, gui>>

\* A write step that persists the new batch alone
OrganizeWriteBatchOnly(i) ==
    LET e == eng[i]
    IN  /\ e.pc = "write"
        /\ \E fault \in Faults({"open", "dump"}) :
             /\ history_file' = WriteHistory(history_file, <<e.current_batch_history>>, fault)
             /\ faults' = Count(fault)
             /\ Finish(i, [e EXCEPT !.faulted = Met(e.faulted, fault)],
                       CountResult(Len(e.current_batch_history)), e.current_batch_history)
        /\ UNCHANGED <<files, dirs, progress, calls, arg, ret, gui>>

\* Step 4, second half: write the whole stack; an error is logged only.
OrganizeWrite(i) ==
    LET e == eng[i]
    IN  /\ e.pc = "write"
        /\ \E fault \in Faults({"open", "dump"}) :
             /\ history_file' = WriteHistory(history_file, e.history_stack, fault)
             /\ faults' = Count(fault)
             /\ Finish(i, [e EXCEPT !.faulted = Met(e.faulted, fault)],
                       CountResult(Len(e.current_batch_history)), e.current_batch_history)
        /\ UNCHANGED <<files, dirs, progress, calls, arg, ret, gui>>

-----------------------------------------------------------------------------
(* undo_organization                                                       *)

\* A pop from the wrong end of the stack
PopOldest(stack) == stack[1]

\* history_stack.pop(): the batch popped, and the stack it leaves
PopLast(stack) == stack[Len(stack)]

\* A pop that leaves the batch on the stack
PopRestNothing(stack) == stack

PopRest(stack) == SubSeq(stack, 1, Len(stack) - 1)

\* reversed(last_batch)
Reversed(seq) == [k \in 1..Len(seq) |-> seq[Len(seq) + 1 - k]]

\* undo_organization without its early return on an empty stack: the call
\* goes on to the save step, which removes the history file.
UndoBeginFallsThrough(i) ==
    /\ eng[i].pc = "idle"
    /\ calls < MaxCalls
    /\ calls' = calls + 1
    /\ progress' = [progress EXCEPT ![i] = <<>>]
    /\ \E fault \in Faults(IF history_file.kind = "absent" THEN {} ELSE {"read"}) :
         LET history_stack == LoadHistoryStack(history_file, fault)
             e == [IdleEngine EXCEPT !.op = "undo", !.pre = Snapshot,
                                     !.faulted = Met({}, fault),
                                     !.overlapped = Overlapping(i)]
         IN  /\ faults' = Count(fault)
             /\ eng' = Enter(i,
                    IF history_stack = <<>>
                    THEN [e EXCEPT !.pc = "save"]
                    ELSE [e EXCEPT !.pc = "records",
                                   !.history_stack = PopRest(history_stack),
                                   !.last_batch = PopLast(history_stack),
                                   !.total_files = Len(PopLast(history_stack))])
    /\ UNCHANGED <<files, dirs, history_file, done, prev, arg, ret, gui>>

\* Load the stack; return 0 when it is empty; pop the last batch; return 0
\* when that batch is empty.
UndoBegin(i) ==
    /\ eng[i].pc = "idle"
    /\ calls < MaxCalls
    /\ calls' = calls + 1
    /\ progress' = [progress EXCEPT ![i] = <<>>]
    /\ \E fault \in Faults(IF history_file.kind = "absent" THEN {} ELSE {"read"}) :
         LET history_stack == LoadHistoryStack(history_file, fault)
             e == [IdleEngine EXCEPT !.op = "undo", !.pre = Snapshot,
                                     !.faulted = Met({}, fault),
                                     !.overlapped = Overlapping(i)]
         IN  /\ faults' = Count(fault)
             /\ IF history_stack = <<>>
                THEN Finish(i, e, CountResult(0), <<>>)
                ELSE LET last_batch == PopLast(history_stack)
                     IN  IF last_batch = <<>>
                         THEN Finish(i, e, CountResult(0), <<>>)
                         ELSE /\ eng' = Enter(i,
                                    [e EXCEPT !.pc = "records",
                                              !.history_stack = PopRest(history_stack),
                                              !.last_batch = last_batch,
                                              !.total_files = Len(last_batch)])
                              /\ UNCHANGED <<done, prev>>
    /\ UNCHANGED <<files, dirs, history_file, arg, ret, gui>>

\* A cleanup set that takes the folder of every record attempted
CollectAttempted(folders_to_check, restored, dest_str) ==
    folders_to_check \cup {Parent(dest_str)}

\* folders_to_check.add(Path(dest_str).parent), which the try block reaches
\* only when shutil.move has returned
Collect(folders_to_check, restored, dest_str) ==
    IF restored THEN folders_to_check \cup {Parent(dest_str)} ELSE folders_to_check

\* Step 1, one iteration: move the destination of one record back to its
\* source; a failure is logged and the record skipped.
UndoRecord(i) ==
    LET e == eng[i]
        record == Reversed(e.last_batch)[e.index + 1]
        source_str == record[1]
        dest_str == record[2]
    IN  /\ e.pc = "records"
        /\ \E fault \in Faults({"move"}) :
             LET r == IF fault = "move"
                      THEN [ok |-> FALSE, error |-> "Error", fs |-> FS]
                      ELSE ShutilMove(FS, dest_str, source_str)
             IN  /\ files' = r.fs.files
                 /\ dirs' = r.fs.dirs
                 /\ faults' = Count(fault)
                 /\ eng' = [eng EXCEPT ![i] =
                        [e EXCEPT !.index = e.index + 1,
                                  !.outcomes = Append(@, IF r.ok THEN "restored"
                                                         ELSE "failed"),
                                  !.faulted = Met(e.faulted, fault),
                                  !.files_undone = IF r.ok THEN @ + 1 ELSE @,
                                  !.folders_to_check = Collect(@, r.ok, dest_str),
                                  !.pc = IF e.index + 1 = e.total_files
                                         THEN "cleanup" ELSE "records"]]
        /\ progress' = [progress EXCEPT ![i] = ReportProgress(@, e.index + 1, e.total_files)]
        /\ UNCHANGED <<history_file, done, prev, calls, arg, ret, gui>>

\* Step 2: delete the collected folders that are empty, and their emptied
\* ancestors, deepest first.  The environment may make one rmdir fail.
UndoCleanup(i) ==
    LET e == eng[i]
    IN  /\ e.pc = "cleanup"
        /\ \E sorted_folders \in SortedFolders(e.folders_to_check) :
           \E failing \in {{}} \cup (IF faults < MaxFaults THEN {{d} : d \in dirs} ELSE {}) :
             LET fs == CleanupFolders(FS, sorted_folders, failing)
                 hit == failing # {} /\ fs # CleanupFolders(FS, sorted_folders, {})
             IN  /\ failing # {} => hit
                 /\ files' = fs.files
                 /\ dirs' = fs.dirs
                 /\ faults' = IF hit THEN faults + 1 ELSE faults
                 /\ eng' = [eng EXCEPT ![i] =
                        [e EXCEPT !.pc = "save", !.faulted = IF hit THEN e.faulted \cup {"rmdir"} ELSE e.faulted]]
        /\ UNCHANGED <<history_file, progress, done, prev, calls, arg, ret, gui>>

\* Step 3: remove the history file when the stack is empty now, rewrite it
\* otherwise; an error is logged only.  Return the number of files restored.
UndoSave(i) ==
    LET e == eng[i]
    IN  /\ e.pc = "save"
        /\ \E fault \in Faults(IF e.history_stack = <<>> THEN {"remove"} ELSE {"open", "dump"}) :
             /\ history_file' = IF e.history_stack = <<>>
                                THEN RemoveHistory(history_file, fault)
                                ELSE WriteHistory(history_file, e.history_stack, fault)
             /\ faults' = Count(fault)
             /\ Finish(i, [e EXCEPT !.faulted = Met(e.faulted, fault)],
                       CountResult(e.files_undone), e.last_batch)
        /\ UNCHANGED <<files, dirs, progress, calls, arg, ret, gui>>

-----------------------------------------------------------------------------
(* The window of FileOrganizerGUI                                          *)

\* self.active_thread = None
NoThread == 0

\* The window after FileOrganizerGUI.__init__:
\*   controls         the Organize and Undo buttons are enabled
\*   selected_folder  selected_folder names a directory
\*   active_thread    self.active_thread: NoThread or a worker
\*   thread_result    self.thread_result: [type, n]; the type is "unset"
\*                    (no such attribute yet), "None", or the message type
\*   timers           _check_thread callbacks pending in the event loop
\*   worker           each worker thread: "dead", "started" (it has not run
\*                    yet), "calling" (it is at its engine call)
\*   task             what each worker thread was started for
\*   calls_before     the engine calls begun when the worker got to its own
\*   started          worker threads started so far
\*   reported         result messages shown so far
\*   dialog           the message box shown last, and the worker it was for
InitialGUI ==
    [controls |-> TRUE, selected_folder |-> FALSE, active_thread |-> NoThread,
     thread_result |-> [type |-> "unset", n |-> 0], timers |-> 0,
     worker |-> [i \in Engines |-> "dead"], task |-> [i \in Engines |-> "none"],
     calls_before |-> [i \in Engines |-> 0], started |-> 0, reported |-> 0,
     dialog |-> [type |-> "none", n |-> 0, of |-> NoThread]]

-----------------------------------------------------------------------------
(* The sequential specification: one engine, one call at a time            *)

NoTime == [year |-> 0, month |-> 0, day |-> 0, hour |-> 0, minute |-> 0, second |-> 0]

\* The attributes of a FileOrganizer object before __init__ has set any
NoObject ==
    [source_directory |-> NoDestination, history_file |-> NoDestination,
     progress_callback |-> FALSE, logger |-> FALSE]

\* __init__ with _setup_logger() moved in front of the two checks
InitLoggerFirst(tree, source_directory, handlers) ==
    LET self == [NoObject EXCEPT !.source_directory = Destination(source_directory),
                                 !.logger = TRUE]
        h == IF handlers = 0 THEN 1 ELSE handlers
    IN  IF ~Exists(tree, source_directory)
        THEN [error |-> "FileNotFoundError", self |-> self, handlers |-> h]
        ELSE IF ~IsDir(tree, source_directory)
        THEN [error |-> "NotADirectoryError", self |-> self, handlers |-> h]
        ELSE [error |-> "none", handlers |-> h,
              self |-> [self EXCEPT !.history_file =
                                        Destination(Append(source_directory, HistoryName)),
                                    !.progress_callback = TRUE]]

\* FileOrganizer.__init__(source_directory, progress_callback) in the
\* directory tree `tree`, the shared logger having `handlers` handlers:
\* the error raised, the attributes set, and the handlers afterwards (the
\* first handler opens the log file).
FileOrganizerInit(tree, source_directory, handlers) ==
    LET self == [NoObject EXCEPT !.source_directory = Destination(source_directory)]
    IN  IF ~Exists(tree, source_directory)
        THEN [error |-> "FileNotFoundError", self |-> self, handlers |-> handlers]
        ELSE IF ~IsDir(tree, source_directory)
        THEN [error |-> "NotADirectoryError", self |-> self, handlers |-> handlers]
        ELSE [error |-> "none",
              self |-> [self EXCEPT !.history_file =
                                        Destination(Append(source_directory, HistoryName)),
                                    !.progress_callback = TRUE,
                                    !.logger = TRUE],
              handlers |-> IF handlers = 0 THEN 1 ELSE handlers]

AbsentArg ==
    [fn |-> "none", keyword_rules |-> <<>>, folder_rules |-> <<>>, name |-> <<>>,
     m_time |-> NoTime, granularity |-> "Year", create_parent_folders |-> FALSE,
     tree |-> [files |-> <<>>, dirs |-> {}], source_directory |-> <<>>, handlers |-> 0]

AbsentRet ==
    [set |-> FALSE, error |-> "none", map |-> <<>>, folder |-> <<>>,
     time_folder_path |-> NoDestination, self |-> NoObject, handlers |-> 0,
     tree |-> [files |-> <<>>, dirs |-> {}], batch |-> <<>>]

\* A directory an earlier run has organized already: "b.TXT" was moved to
\* the folder X by the keyword rules "a, B; t" / "X; Y".
OldName == <<"b",".","T","X","T">>

OldFolder == <<"X">>

OldBatch == << << (<<OldName>>), <<OldFolder, OldName>> >> >>

\* A run before that one: "c" was moved to the folder "other" By Extension.
OlderName == <<"c">>

OlderBatch == << << (<<OlderName>>), <<Other, OlderName>> >> >>

OldMTime == [year |-> 2019, month |-> 12, day |-> 1, hour |-> 0, minute |-> 0, second |-> 0]

\* The directory before the first call.  Any files of FileNames are at the
\* top.  Either nothing was organized yet: there is no subfolder, and no
\* history file or (next to both files) one that holds no batch: the empty
\* array, invalid JSON, or JSON that is no array.  Or an earlier run has
\* left its folder and its history, with the file it moved or (the user
\* having deleted that file since, next to no other file) without it; or
\* (next to no other file) two earlier runs have.  Where one earlier run
\* has left its file next to both files, the configuration file of the
\* application lies in the directory as well.
Init ==
    /\ \E names \in SUBSET FileNames, organized \in 0..2, kept, config \in BOOLEAN :
         /\ ~kept => (organized = 1 /\ names = {})
         /\ organized = 2 => names = {}
         /\ config <=> (organized = 1 /\ kept /\ names = FileNames)
         /\ \E top \in {t \in [{<<n>> : n \in names} -> MTimes] :
                            \A q \in DOMAIN t : t[q] \in MTimesOf(Name(q))} :
              LET old == (IF organized >= 1 /\ kept THEN {<<OldFolder, OldName>>} ELSE {})
                         \cup (IF organized = 2 THEN {<<Other, OlderName>>} ELSE {})
                         \cup (IF config THEN {<<ConfigName>>} ELSE {})
              IN  files = [q \in (DOMAIN top) \cup old |->
                              IF q \in DOMAIN top THEN top[q] ELSE OldMTime]
         /\ dirs = (IF organized >= 1 THEN {<<OldFolder>>} ELSE {})
                   \cup (IF organized = 2 THEN {<<Other>>} ELSE {})
         /\ history_file \in
                CASE organized = 2 -> {HistoryOf(<<OlderBatch, OldBatch>>)}
                  [] organized = 1 -> {HistoryOf(<<OldBatch>>)}
                  [] OTHER -> {NoHistory} \cup
                              (IF names = FileNames
                               THEN {HistoryOf(<<>>), CorruptHistory,
                                     NonArrayHistory(<<OldBatch>>)}
                               ELSE {})
    /\ eng = [i \in Engines |-> IdleEngine]
    /\ progress = [i \in Engines |-> <<>>]
    /\ done = [i \in Engines |-> NoCall]
    /\ prev = [i \in Engines |-> NoCall]
    /\ calls = 0
    /\ faults = 0
    /\ arg = AbsentArg
    /\ ret = AbsentRet
    /\ gui = InitialGUI

Next ==
    \E i \in MainEngines :
        \/ OrganizeBegin(i)
        \/ OrganizeFile(i)
        \/ OrganizeLoad(i)
        \/ OrganizeWrite(i)
        \/ UndoBegin(i)
        \/ UndoRecord(i)
        \/ UndoCleanup(i)
        \/ UndoSave(i)

Spec == Init /\ [][Next]_vars

-----------------------------------------------------------------------------
(* Two engine instances on one directory: organize_files calls of two      *)
(* FileOrganizer objects (two threads or two processes), their steps       *)
(* interleaved in any way.  Nothing in the code locks the directory or the *)
(* history file.                                                           *)

\* Both instances are between open(history_file, 'w') and the end of
\* json.dump at once.  Each open truncates the file and each writer writes
\* from its own offset 0: the file ends as what one of the two wrote, or as
\* the shorter text followed by the rest of the longer one, which is no
\* JSON.  Both calls return their counts.
OrganizeWriteTogether ==
    /\ \A i \in Engines : eng[i].pc = "write"
    /\ history_file' \in {HistoryOf(eng[i].history_stack) : i \in Engines}
                          \cup {CorruptHistory}
    /\ done' = [i \in Engines |->
                   Summary(eng[i], CountResult(Len(eng[i].current_batch_history)),
                           eng[i].current_batch_history)]
    /\ prev' = done
    /\ eng' = [i \in Engines |-> IdleEngine]
    /\ UNCHANGED <<files, dirs, progress, calls, faults, arg, ret, gui>>

\* The directory holds both files of FileNames when the two calls start.
InitTwo ==
    /\ Init
    /\ \A name \in FileNames : <<name>> \in DOMAIN files

\* Each instance makes one call.
NextTwo ==
    \/ \E i \in Engines :
          \/ done[i] = NoCall /\ OrganizeBegin(i)
          \/ OrganizeFile(i)
          \/ OrganizeLoad(i)
          \/ OrganizeWrite(i)
    \/ OrganizeWriteTogether

SpecTwo == InitTwo /\ [][NextTwo]_vars

-----------------------------------------------------------------------------
(* The application: the event loop of the window runs the handlers         *)
(* select_folder, run_organize, run_undo and _check_thread one at a time;  *)
(* each worker thread constructs a FileOrganizer and makes one engine      *)
(* call, its steps interleaved with the handlers.                          *)

\* select_folder(): the dialog returns a directory (a cancelled dialog
\* changes nothing).
SelectFolder ==
    /\ gui.controls
    /\ ~gui.selected_folder
    /\ gui' = [gui EXCEPT !.selected_folder = TRUE]
    /\ UNCHANGED <<engineVars, arg, ret>>

\* The thread object a handler creates: the first one that is free.
NewThread == CHOOSE i \in Engines : gui.worker[i] = "dead" /\ \A j \in Engines :
                                        gui.worker[j] = "dead" => i <= j

\* run_organize() and run_undo() for a valid folder: _toggle_controls
\* (enabled=False), a new worker thread in self.active_thread, started, and
\* root.after(100, self._check_thread).
Start(task) ==
    [gui EXCEPT !.controls = FALSE,
                !.active_thread = NewThread,
                !.worker[NewThread] = "started",
                !.task[NewThread] = task,
                !.timers = @ + 1,
                !.started = @ + 1]

\* messagebox.showerror("Error", "Please select a valid folder.")
InvalidFolder == [gui EXCEPT !.dialog = [type |-> "Error", n |-> 0, of |-> NoThread]]

\* run_organize(), invoked by the Organize button, which is enabled.
RunOrganize ==
    /\ gui.controls
    /\ gui.started < MaxCalls
    /\ \E i \in Engines : gui.worker[i] = "dead"
    /\ gui' = IF gui.selected_folder THEN Start("organize") ELSE InvalidFolder
    /\ UNCHANGED <<engineVars, arg, ret>>

\* run_undo(), invoked by the Undo button, which is enabled.
RunUndo ==
    /\ gui.controls
    /\ gui.started < MaxCalls
    /\ \E i \in Engines : gui.worker[i] = "dead"
    /\ gui' = IF gui.selected_folder THEN Start("undo") ELSE InvalidFolder
    /\ UNCHANGED <<engineVars, arg, ret>>

\* _organize_thread / _undo_thread, first lines: self.thread_result = None,
\* then the FileOrganizer is constructed.
WorkerStart(i) ==
    /\ gui.worker[i] = "started"
    /\ gui' = [gui EXCEPT !.thread_result = [type |-> "None", n |-> 0],
                          !.worker[i] = "calling",
                          !.calls_before[i] = calls]
    /\ UNCHANGED <<engineVars, arg, ret>>

\* The worker has begun its engine call.
Called(i) == calls > gui.calls_before[i]

\* organizer.organize_files(...) or organizer.undo_organization() begins.
WorkerCall(i) ==
    /\ gui.worker[i] = "calling"
    /\ ~Called(i)
    /\ \/ gui.task[i] = "organize" /\ OrganizeBegin(i)
       \/ gui.task[i] = "undo" /\ UndoBegin(i)

\* The engine call goes on.
WorkerStep(i) ==
    /\ gui.worker[i] = "calling"
    /\ \/ OrganizeFile(i)
       \/ OrganizeLoad(i)
       \/ OrganizeWrite(i)
       \/ UndoRecord(i)
       \/ UndoCleanup(i)
       \/ UndoSave(i)

\* The message a worker leaves in self.thread_result for the call `call`
Message(call) ==
    IF call.result.kind # "count" THEN [type |-> "Error", n |-> 0]
    ELSE IF call.op = "undo" /\ call.result.n = 0 THEN [type |-> "Info", n |-> 0]
    ELSE [type |-> "Success", n |-> call.result.n]

\* The engine call has returned or raised: the worker sets
\* self.thread_result and ends.
WorkerReturn(i) ==
    /\ gui.worker[i] = "calling"
    /\ Called(i)
    /\ eng[i].pc = "idle"
    /\ gui' = [gui EXCEPT !.thread_result = Message(done[i]),
                          !.worker[i] = "dead"]
    /\ UNCHANGED <<engineVars, arg, ret>>

\* A poll that does not ask whether the worker is alive
CheckThreadAtOnce ==
    /\ gui.timers > 0
    /\ gui' = IF gui.thread_result.type \in {"unset", "None"}
              THEN [gui EXCEPT !.timers = @ - 1, !.controls = TRUE,
                               !.active_thread = NoThread,
                               !.thread_result = [type |-> "None", n |-> 0]]
              ELSE [gui EXCEPT !.timers = @ - 1, !.controls = TRUE,
                               !.reported = @ + 1,
                               !.dialog = [type |-> gui.thread_result.type,
                                           n |-> gui.thread_result.n,
                                           of |-> gui.active_thread],
                               !.active_thread = NoThread,
                               !.thread_result = [type |-> "None", n |-> 0]]
    /\ UNCHANGED <<engineVars, arg, ret>>

\* _check_thread(), run by the timer: while the worker is alive the poll is
\* scheduled again; otherwise the controls are enabled, the result is shown
\* in a message box (modal: the handler ends when it is closed), and
\* active_thread and thread_result are reset.  Reading thread_result
\* before any worker has set it raises after the controls were enabled.
CheckThread ==
    /\ gui.timers > 0
    /\ gui' = IF gui.active_thread # NoThread /\ gui.worker[gui.active_thread] # "dead"
              THEN gui
              ELSE IF gui.thread_result.type = "unset"
              THEN [gui EXCEPT !.timers = @ - 1, !.controls = TRUE]
              ELSE IF gui.thread_result.type = "None"
              THEN [gui EXCEPT !.timers = @ - 1, !.controls = TRUE,
                               !.active_thread = NoThread]
              ELSE [gui EXCEPT !.timers = @ - 1, !.controls = TRUE,
                               !.reported = @ + 1,
                               !.dialog = [type |-> gui.thread_result.type,
                                           n |-> gui.thread_result.n,
                                           of |-> gui.active_thread],
                               !.active_thread = NoThread,
                               !.thread_result = [type |-> "None", n |-> 0]]
    /\ UNCHANGED <<engineVars, arg, ret>>

NextGUI ==
    \/ SelectFolder
    \/ RunOrganize
    \/ RunUndo
    \/ CheckThread
    \/ \E i \in Engines :
          \/ WorkerStart(i)
          \/ WorkerCall(i)
          \/ WorkerStep(i)
          \/ WorkerReturn(i)

\* The window is opened on a folder that holds both files at its top and
\* has not been organized before.
InitGUI == InitTwo /\ history_file.kind = "absent"

SpecGUI == InitGUI /\ [][NextGUI]_vars

\* The event loop runs the timer callback every time it is due.
FairSpecGUI == SpecGUI /\ WF_vars(CheckThread)

-----------------------------------------------------------------------------
(* The specification of the pure functions: the input is drawn by the      *)
(* initial state, one action applies the function.                         *)

MaxKeywordLen == 3

MaxFolderLen == 3

MaxNameLen == 4

KeywordChars == {"a", "B", ",", ";", " "}

FolderChars == {"X", ";", " "}

NameChars == {"a", "T", "."}

\* "a,b; c" / "X; Y"
ExampleRules ==
    << <<"a",",","b",";"," ","c">>, <<"X",";"," ","Y">> >>

ReportTXT == <<"r","e","p","o","r","t",".","T","X","T">>

README == <<"R","E","A","D","M","E">>

RuleInputs ==
    (StringsUpTo(KeywordChars, MaxKeywordLen) \X StringsUpTo(FolderChars, MaxFolderLen))
    \cup {ExampleRules}

\* File names: not empty, and not the directory entries "." and ".."
NameInputs ==
    (StringsUpTo(NameChars, MaxNameLen) \ {<<>>, <<".">>, <<".", ".">>})
    \cup {ReportTXT, README}

\* Modification times: both sides of a decade and of the two-digit padding
TimeInputs ==
    [year : {1999, 2024}, month : {3, 11}, day : {2, 15},
     hour : {9, 23}, minute : {5, 59}, second : {0, 7}]

\* Rule strings for the By Keyword loop: keys whose order of insertion is
\* not their sorted order ("B;a"), a key that a later group takes over while
\* it keeps its place ("B; a; b"), and the example "a,b; c".
KeywordRuleInputs ==
    { << <<"B",";","a">>, <<"X",";","Y">> >>,
      << <<"B",";"," ","a",";"," ","b">>, <<"X",";"," ","Y",";"," ","Z">> >>,
      ExampleRules }

KeywordNameChars == {"a", "B", "c", "."}

\* File names for the By Keyword loop
KeywordNameInputs ==
    StringsUpTo(KeywordNameChars, MaxNameLen) \ {<<>>, <<".">>, <<".", ".">>}

\* Directory trees for the constructor: any of a folder "d", a file "f" and
\* a file "d/g" in it; the paths given are these and the missing "m", "d/m".
TreeInputs ==
    { t \in { [files |-> [q \in fs |-> OldMTime], dirs |-> ds] :
                 fs \in SUBSET {<<(<<"f">>)>>, <<(<<"d">>), (<<"g">>)>>},
                 ds \in {{}, {<<(<<"d">>)>>}} } :
        \A q \in DOMAIN t.files : Len(q) > 1 => Parent(q) \in t.dirs }

PathInputs ==
    {<<>>, <<(<<"d">>)>>, <<(<<"f">>)>>, <<(<<"m">>)>>, <<(<<"d">>), (<<"g">>)>>,
     <<(<<"d">>), (<<"m">>)>>}

InitPure ==
    /\ arg \in {[AbsentArg EXCEPT !.fn = "build_keyword_map", !.keyword_rules = r[1],
                                   !.folder_rules = r[2]] : r \in RuleInputs}
          \cup {[AbsentArg EXCEPT !.fn = "ext_folder_name", !.name = n] : n \in NameInputs}
          \cup {[AbsentArg EXCEPT !.fn = "time_folder_path", !.m_time = t[1],
                                   !.granularity = t[2], !.create_parent_folders = t[3]] :
                    t \in TimeInputs \X Granularities \X BOOLEAN}
          \cup {[AbsentArg EXCEPT !.fn = "init", !.tree = c[1],
                                   !.source_directory = c[2], !.handlers = c[3]] :
                    c \in TreeInputs \X PathInputs \X {0, 1}}
          \cup {[AbsentArg EXCEPT !.fn = "organize_by_keyword", !.keyword_rules = r[1],
                                   !.folder_rules = r[2], !.name = n,
                                   !.tree = [files |-> [q \in {<<n>>} |-> OldMTime],
                                             dirs |-> {}]] :
                    r \in KeywordRuleInputs, n \in KeywordNameInputs}
    /\ ret = AbsentRet
    /\ files = <<>>
    /\ dirs = {}
    /\ history_file = NoHistory
    /\ eng = [i \in Engines |-> IdleEngine]
    /\ progress = [i \in Engines |-> <<>>]
    /\ done = [i \in Engines |-> NoCall]
    /\ prev = [i \in Engines |-> NoCall]
    /\ calls = 0
    /\ faults = 0
    /\ gui = InitialGUI

\* _build_keyword_map(keyword_rules, folder_rules)
CompileRules ==
    /\ arg.fn = "build_keyword_map"
    /\ ~ret.set
    /\ LET built == BuildKeywordMap(arg.keyword_rules, arg.folder_rules)
       IN  ret' = [AbsentRet EXCEPT !.set = TRUE, !.error = built.error, !.map = built.map]
    /\ UNCHANGED <<arg, engineVars, gui>>

\* The folder name the By Extension branch computes for a file name
ClassifyExtension ==
    /\ arg.fn = "ext_folder_name"
    /\ ~ret.set
    /\ ret' = [AbsentRet EXCEPT !.set = TRUE, !.folder = ExtFolderName(arg.name)]
    /\ UNCHANGED <<arg, engineVars, gui>>

\* The folder path the By Time branch computes for a modification time
ClassifyTime ==
    /\ arg.fn = "time_folder_path"
    /\ ~ret.set
    /\ ret' = [AbsentRet EXCEPT !.set = TRUE, !.time_folder_path =
                   ClassifyByTime(arg.m_time, arg.granularity, arg.create_parent_folders)]
    /\ UNCHANGED <<arg, engineVars, gui>>

\* FileOrganizer(source_directory, progress_callback)
Construct ==
    /\ arg.fn = "init"
    /\ ~ret.set
    /\ LET made == FileOrganizerInit(arg.tree, arg.source_directory, arg.handlers)
       IN  ret' = [AbsentRet EXCEPT !.set = TRUE, !.error = made.error,
                                    !.self = made.self, !.handlers = made.handlers]
    /\ UNCHANGED <<arg, engineVars, gui>>

\* organize_files("By Keyword", ...) up to the end of its loop, on a
\* directory that holds one file: compile the rules, then the iteration of
\* the loop for that file.
OrganizeByKeyword ==
    /\ arg.fn = "organize_by_keyword"
    /\ ~ret.set
    /\ LET built == BuildKeywordMap(arg.keyword_rules, arg.folder_rules)
           where == ClassifyByKeyword(arg.name, built.map)
           r == IF where.some
                THEN MoveFile(arg.tree, <<>>, arg.name, where.path, "none")
                ELSE [ok |-> FALSE, fs |-> arg.tree, batch |-> <<>>]
       IN  ret' = IF built.error # "none" \/ built.map = <<>>
                  THEN [AbsentRet EXCEPT !.set = TRUE, !.error = "ValueError",
                                         !.tree = arg.tree]
                  ELSE [AbsentRet EXCEPT !.set = TRUE, !.map = built.map,
                                         !.tree = r.fs, !.batch = r.batch]
    /\ UNCHANGED <<arg, engineVars, gui>>

NextPure ==
    CompileRules \/ ClassifyExtension \/ ClassifyTime \/ Construct \/ OrganizeByKeyword

SpecPure == InitPure /\ [][NextPure]_vars

-----------------------------------------------------------------------------
(* Properties of the sequential specification Spec                         *)

\* Engine 1 is between two calls.
Idle == eng[1].pc = "idle"

Last == done[1]

Before == prev[1]

TopFiles(f) == {q \in DOMAIN f : Len(q) = 1}

SubfolderFiles(f) == {q \in DOMAIN f : Len(q) > 1}

\* The stack the history file persists: the array it holds, nothing when
\* the file is missing or holds no array.
PersistedStack(h) == IF h.kind = "list" THEN h.stack ELSE <<>>

Depth(h) == Len(PersistedStack(h))

\* The last two calls were an organize that moved files and an undo right
\* after it (Spec has no other actor on the directory), none of the two hit
\* by a fault other than those of `allowed` during the organize.
OrganizeThenUndo(allowed) ==
    /\ Idle
    /\ Before.op = "organize" /\ Before.result.kind = "count" /\ Before.result.n > 0
    /\ Before.faulted \subseteq allowed
    /\ Last.op = "undo" /\ Last.faulted = {}

\* C1: organize_files followed by undo_organization restores the file set:
\* every file that was an immediate child of the managed directory before
\* the organize is one again, and no file is left in a subfolder that was
\* not there before.
C1_UndoRestoresFiles ==
    OrganizeThenUndo({}) =>
        /\ TopFiles(Before.pre.files) \subseteq TopFiles(files)
        /\ SubfolderFiles(files) \subseteq SubfolderFiles(Before.pre.files)

\* C2: after organize_files followed by undo_organization no empty folder
\* exists that did not exist before the organize, also when the organize
\* created a folder for a file whose move then failed.
C2_NoResidualEmptyFolder ==
    OrganizeThenUndo({"move"}) =>
        \A d \in dirs : Children(FS, d) = {} => d \in Before.pre.dirs

\* The persisted stack grew by exactly the batch of the last call.
PushedBatch ==
    /\ Last.batch # <<>>
    /\ Len(Last.batch) = Last.result.n
    /\ Depth(history_file) = Depth(Last.pre.history_file) + 1
    /\ PersistedStack(history_file)[Depth(history_file)] = Last.batch

\* C3, as claimed: every organize_files call that moves at least one file
\* makes the persisted stack one deeper, its batch on top; a call that
\* moves no file leaves the depth unchanged.
C3_OrganizePushesOneBatch ==
    (Idle /\ Last.op = "organize" /\ Last.result.kind = "count") =>
        IF Last.result.n > 0
        THEN PushedBatch
        ELSE Depth(history_file) = Depth(Last.pre.history_file)

\* C3, amended: an organize_files call that moves no file leaves the
\* history file untouched.  One that moves at least one file writes the
\* stack it loaded with its batch appended: the persisted stack is one
\* deeper, the batch on top, when the file is read and written without an
\* I/O error; it holds the new batch alone when the read failed; and the
\* batch is not persisted when the write failed (the file is left as it
\* was, or truncated to no array).
C3_OrganizePushesOneBatchWhenSaved ==
    (Idle /\ Last.op = "organize" /\ Last.result.kind = "count") =>
        IF Last.result.n = 0 THEN history_file = Last.pre.history_file
        ELSE IF "open" \in Last.faulted THEN history_file = Last.pre.history_file
        ELSE IF "dump" \in Last.faulted THEN history_file = CorruptHistory
        ELSE IF "read" \in Last.faulted THEN history_file = HistoryOf(<<Last.batch>>)
        ELSE PushedBatch

C3_Witness ==
    /\ Idle /\ Last.op = "organize" /\ Last.result.n > 0
    /\ Last.faulted = {}
    /\ Depth(Last.pre.history_file) > 0
    /\ Depth(history_file) = Depth(Last.pre.history_file) + 1

\* C4, as claimed: every undo_organization call made while the persisted
\* stack is not empty makes it one shallower.
C4_UndoPopsOneBatch ==
    (Idle /\ Last.op = "undo" /\ Depth(Last.pre.history_file) > 0) =>
        Depth(history_file) = Depth(Last.pre.history_file) - 1

\* C4, amended: an undo_organization call made while the persisted stack
\* is not empty makes it one shallower, the batches below the top kept as
\* they were, when the history file is read and then rewritten or removed
\* without an I/O error and the batch on top is not empty.  When the read
\* fails, or the batch on top is empty, the call returns 0 and leaves the
\* file as it is; when the rewrite or the removal fails the stack is not
\* made shallower by one (the file is left as it was, or truncated to no
\* array).
C4_UndoPopsOneBatchWhenSaved ==
    (Idle /\ Last.op = "undo" /\ Depth(Last.pre.history_file) > 0) =>
        IF \/ "read" \in Last.faulted
           \/ PopLast(PersistedStack(Last.pre.history_file)) = <<>>
        THEN Last.result = CountResult(0) /\ history_file = Last.pre.history_file
        ELSE IF Last.faulted \cap {"open", "remove"} # {}
        THEN history_file = Last.pre.history_file
        ELSE IF "dump" \in Last.faulted THEN history_file = CorruptHistory
        ELSE /\ Depth(history_file) = Depth(Last.pre.history_file) - 1
             /\ PersistedStack(history_file) =
                    SubSeq(PersistedStack(Last.pre.history_file), 1, Depth(history_file))

C4_Witness ==
    /\ Idle /\ Last.op = "undo" /\ Last.faulted = {}
    /\ Depth(Last.pre.history_file) = 2
    /\ Depth(history_file) = 1

\* C5: undo_organization on an empty stack (no history file, or one holding
\* the empty array) returns 0, moves no file, deletes no folder, leaves the
\* history file as it is and never calls the progress callback.
C5_UndoOnEmptyStackIsNoOp ==
    (/\ Idle /\ Last.op = "undo"
     /\ Last.pre.history_file \in {NoHistory, HistoryOf(<<>>)}) =>
        /\ Last.result = CountResult(0)
        /\ files = Last.pre.files
        /\ dirs = Last.pre.dirs
        /\ history_file = Last.pre.history_file
        /\ progress[1] = <<>>

C5_Witness ==
    /\ Idle /\ Last.op = "undo"
    /\ Last.pre.history_file = HistoryOf(<<>>)
    /\ history_file = HistoryOf(<<>>)
    /\ TopFiles(files) # {}
    /\ Last.result = CountResult(0)

\* C6: for every Move record of the batch of an organize_files call, the
\* parent of the destination is the classification path of the file, and
\* when the call returns no file is left at the record's source path.
C6_RecordsMatchClassification ==
    (Idle /\ Last.op = "organize" /\ Last.result.kind = "count") =>
        \A k \in DOMAIN Last.batch :
            LET source == Last.batch[k][1]
                destination == Last.batch[k][2]
                where == Classify(Name(source), Last.pre.files[source], Last.policy,
                                  BuildKeywordMap(Last.policy.keyword_rules,
                                                  Last.policy.folder_rules).map)
            IN  /\ where.some
                /\ Parent(destination) = where.path
                /\ ~IsFile(FS, source)

\* The number of groups of a rule string: one more than its semicolons.
GroupCount(rules) == Cardinality({k \in DOMAIN rules : rules[k] = ";"}) + 1

\* The last call found the directory, the history file and the progress
\* callback untouched.
Untouched ==
    /\ files = Last.pre.files
    /\ dirs = Last.pre.dirs
    /\ history_file = Last.pre.history_file
    /\ progress[1] = <<>>

\* C7: organize_files By Keyword with as many keyword groups as folder
\* names, or it raises the configuration error before any mutation: no call
\* with a mismatch gets past the rule compilation, and when it has returned
\* nothing was moved, created, written or reported.
C7_MismatchFailsBeforeMutation ==
    /\ (eng[1].op = "organize" /\ eng[1].policy.sort_mode = "By Keyword") =>
           GroupCount(eng[1].policy.keyword_rules) = GroupCount(eng[1].policy.folder_rules)
    /\ (/\ Idle /\ Last.op = "organize" /\ Last.policy.sort_mode = "By Keyword"
        /\ GroupCount(Last.policy.keyword_rules) # GroupCount(Last.policy.folder_rules)) =>
           /\ Last.result = ValueErrorResult
           /\ Untouched

C7_Witness ==
    /\ Idle /\ Last.op = "organize" /\ Last.policy.sort_mode = "By Keyword"
    /\ GroupCount(Last.policy.keyword_rules) = 2
    /\ GroupCount(Last.policy.folder_rules) = 3
    /\ Last.result = ValueErrorResult
    /\ Cardinality(TopFiles(files)) = 2

\* C8: organize_files By Keyword with a keyword string or a folder string
\* that is empty after trimming raises the configuration error and touches
\* nothing.
C8_BlankRulesFail ==
    (/\ Idle /\ Last.op = "organize" /\ Last.policy.sort_mode = "By Keyword"
     /\ (Strip(Last.policy.keyword_rules) = <<>> \/ Strip(Last.policy.folder_rules) = <<>>)) =>
        /\ Last.result = ValueErrorResult
        /\ Untouched

-----------------------------------------------------------------------------
(* Properties of the pure functions, under SpecPure                        *)

\* The keys of one stripped group: its comma-separated pieces, stripped and
\* lowercased, the blank ones left out.
KeysOfGroup(group) ==
    {Lower(Strip(piece)) : piece \in
        {p \in {Split(group, ",")[k] : k \in DOMAIN Split(group, ",")} : Strip(p) # <<>>}}

\* C9: for accepted rule strings with n groups and n folders the map sends
\* every stripped, lowercased keyword of group i to the stripped folder
\* name i, a keyword of several groups to the folder of the last of them,
\* and holds nothing else; "a,b; c" with "X; Y" gives {a:X, b:X, c:Y}.
C9_KeywordMapLastGroupWins ==
    (arg.fn = "build_keyword_map" /\ ret.set) =>
        LET groups == StrippedParts(arg.keyword_rules)
            folders == StrippedParts(arg.folder_rules)
            Holders(key) == {i \in DOMAIN groups : key \in KeysOfGroup(groups[i])}
        IN  /\ ret.error = "none" =>
                /\ Len(groups) = Len(folders)
                /\ DictKeys(ret.map) = UNION {KeysOfGroup(groups[i]) : i \in DOMAIN groups}
                /\ \A a, b \in DOMAIN ret.map : a # b => ret.map[a][1] # ret.map[b][1]
                /\ \A key \in DictKeys(ret.map) :
                       DictGet(ret.map, key) =
                           folders[CHOOSE i \in Holders(key) : \A j \in Holders(key) : j <= i]
            /\ <<arg.keyword_rules, arg.folder_rules>> = ExampleRules =>
                /\ ret.error = "none"
                /\ ret.map = << <<(<<"a">>), (<<"X">>)>>, <<(<<"b">>), (<<"X">>)>>,
                                <<(<<"c">>), (<<"Y">>)>> >>

\* A keyword the rules give to two groups with different folders.
C9_Witness ==
    /\ arg.fn = "build_keyword_map" /\ ret.set /\ ret.error = "none"
    /\ LET groups == StrippedParts(arg.keyword_rules)
           folders == StrippedParts(arg.folder_rules)
       IN  \E i, j \in DOMAIN groups :
              /\ i < j
              /\ folders[i] # folders[j]
              /\ KeysOfGroup(groups[i]) \cap KeysOfGroup(groups[j]) # {}

\* C10: By Extension the destination segment of a file is its extension in
\* lowercase without the dot, or "other" when the name has no extension:
\* "report.TXT" goes to "txt", "README" to "other".
C10_ExtensionFolder ==
    (arg.fn = "ext_folder_name" /\ ret.set) =>
        LET name == arg.name
            dots == {k \in DOMAIN name : name[k] = "."}
            last == CHOOSE k \in dots : \A j \in dots : j <= k
            extended == dots # {} /\ 1 < last /\ last < Len(name)
        IN  /\ extended =>
                /\ Len(ret.folder) = Len(name) - last
                /\ \A k \in DOMAIN ret.folder :
                       /\ LowerChar(ret.folder[k]) = LowerChar(name[last + k])
                       /\ \A u \in DOMAIN Uppers : ret.folder[k] # Uppers[u]
            /\ ~extended => ret.folder = Other
            /\ name = ReportTXT => ret.folder = <<"t","x","t">>
            /\ name = README => ret.folder = <<"o","t","h","e","r">>

C10_Witness ==
    /\ arg.fn = "ext_folder_name" /\ ret.set
    /\ arg.name = ReportTXT
    /\ ret.folder = <<"t","x","t">>

\* The decimal digit of a number below ten, and the fixed-width renderings
\* of a year and of a two-digit field, digit by digit.
Digit(n) == DigitChars[n + 1]

YYYY(n) == <<Digit(n \div 1000), Digit((n \div 100) % 10), Digit((n \div 10) % 10), Digit(n % 10)>>

TwoDigits(n) == <<Digit(n \div 10), Digit(n % 10)>>

\* The granularities from Year on, coarsest first.
FinerOrder == <<"Year", "Month", "Day", "Hour", "Minute", "Second">>

\* C11: By Time, the flat layout gives the one folder name "<decade>s",
\* "YYYY", "YYYY-MM", "YYYY-MM-DD", "YYYY-MM-DD_HHh", "YYYY-MM-DD_HHhMMm" or
\* "YYYY-MM-DD_HHhMMmSSs"; the nested layout gives "<decade>s" for Decade
\* and otherwise the segments YYYY, MM, DD, HHh, MMm, SSs cut at the
\* granularity, each finer granularity extending the next coarser path by
\* one segment; the decade is year - (year mod 10).
C11_TimeFolderPath ==
    (arg.fn = "time_folder_path" /\ ret.set) =>
        LET m == arg.m_time
            g == arg.granularity
            decade == YYYY(m.year - (m.year % 10)) \o <<"s">>
            day == YYYY(m.year) \o <<"-">> \o TwoDigits(m.month) \o <<"-">> \o TwoDigits(m.day)
            segments == <<YYYY(m.year), TwoDigits(m.month), TwoDigits(m.day),
                          TwoDigits(m.hour) \o <<"h">>, TwoDigits(m.minute) \o <<"m">>,
                          TwoDigits(m.second) \o <<"s">> >>
            rank == CHOOSE k \in DOMAIN FinerOrder : FinerOrder[k] = g
            flat == CASE g = "Decade" -> decade
                      [] g = "Year"   -> YYYY(m.year)
                      [] g = "Month"  -> YYYY(m.year) \o <<"-">> \o TwoDigits(m.month)
                      [] g = "Day"    -> day
                      [] g = "Hour"   -> day \o <<"_">> \o segments[4]
                      [] g = "Minute" -> day \o <<"_">> \o segments[4] \o segments[5]
                      [] g = "Second" -> day \o <<"_">> \o segments[4] \o segments[5]
                                             \o segments[6]
        IN  /\ ret.time_folder_path.some
            /\ ~arg.create_parent_folders => ret.time_folder_path.path = <<flat>>
            /\ (arg.create_parent_folders /\ g = "Decade") =>
                   ret.time_folder_path.path = <<decade>>
            /\ (arg.create_parent_folders /\ g # "Decade") =>
                   /\ ret.time_folder_path.path = SubSeq(segments, 1, rank)
                   /\ rank > 1 =>
                          /\ Len(ret.time_folder_path.path) =
                                 Len(NestedParts(m, FinerOrder[rank - 1])) + 1
                          /\ SubSeq(ret.time_folder_path.path, 1, rank - 1) =
                                 NestedParts(m, FinerOrder[rank - 1])

\* A nested path down to the second, with one-digit fields to pad.
C11_Witness ==
    /\ arg.fn = "time_folder_path" /\ ret.set
    /\ arg.create_parent_folders /\ arg.granularity = "Second"
    /\ arg.m_time.year = 1999 /\ arg.m_time.month = 3 /\ arg.m_time.second = 7
    /\ Len(ret.time_folder_path.path) = 6
    /\ ret.time_folder_path.path[2] = <<"0", "3">>

\* The last call was an undo that popped a batch and replayed it.
UndoPopped == Idle /\ Last.op = "undo" /\ Last.batch # <<>>

\* The stack persisted before the last call, without its last batch.
StackBelowTop == PopRest(PersistedStack(Last.pre.history_file))

\* C12, as claimed: after an undo_organization call that popped a batch the
\* history file is removed when the remaining stack is empty and otherwise
\* holds the stack persisted before the call minus its last batch.
C12_UndoPersistsRest ==
    UndoPopped =>
        history_file = IF StackBelowTop = <<>> THEN NoHistory ELSE HistoryOf(StackBelowTop)

\* C12, amended: the same when os.remove, or open and json.dump, raise no
\* I/O error; when os.remove or open raises the history file keeps the
\* content it had before the call, the popped batch included, and when
\* json.dump raises it is left truncated, holding no array.
C12_UndoPersistsRestWhenSaved ==
    UndoPopped =>
        history_file =
            IF Last.faulted \cap {"remove", "open"} # {} THEN Last.pre.history_file
            ELSE IF "dump" \in Last.faulted THEN CorruptHistory
            ELSE IF StackBelowTop = <<>> THEN NoHistory
            ELSE HistoryOf(StackBelowTop)

\* One organize and one undo from a directory without history: no history
\* file is left.
C12_Witness ==
    /\ UndoPopped /\ Last.faulted = {}
    /\ Before.op = "organize" /\ Before.pre.history_file = NoHistory
    /\ Last.pre.history_file = HistoryOf(<<Before.batch>>)
    /\ history_file = NoHistory

\* The calls of the callback are those of 100*k/n for k = 1..upto, in order.
ReportedUpTo(received, upto, n) ==
    /\ Len(received) = upto
    /\ \A k \in 1..upto :
          /\ received[k].den > 0
          /\ received[k].num * n = 100 * k * received[k].den
          /\ 0 <= received[k].num /\ received[k].num <= 100 * received[k].den
          /\ k > 1 => received[k - 1].num * received[k].den
                          < received[k].num * received[k - 1].den

\* The number of files the last call found in the managed directory.
Enumerated ==
    Cardinality(FilesToProcess([files |-> Last.pre.files, dirs |-> Last.pre.dirs],
                               Last.pre.history_file))

\* C13: one organize_files call over n enumerated files calls the progress
\* callback n times, after each file whether moved, skipped or failed, with
\* 100*k/n for k = 1..n in this order (increasing, within [0, 100], ending
\* at 100); one undo_organization call over a popped batch of m records
\* calls it m times with 100*k/m; it is not called when n or m is zero.
\* While a call is running the callback has been called once for each file
\* or record gone through so far.
C13_ProgressPerItem ==
    /\ eng[1].pc \in {"files", "records"} =>
           ReportedUpTo(progress[1], eng[1].index, eng[1].total_files)
    /\ eng[1].pc \in {"load", "write", "cleanup", "save"} =>
           ReportedUpTo(progress[1], eng[1].total_files, eng[1].total_files)
    /\ (Idle /\ Last.op = "organize") =>
           IF Last.result.kind = "count"
           THEN ReportedUpTo(progress[1], Enumerated, Enumerated)
           ELSE progress[1] = <<>>
    /\ (Idle /\ Last.op = "undo") =>
           ReportedUpTo(progress[1], Len(Last.batch), Len(Last.batch))

\* An organize call over two files of which one was moved and the other
\* failed or was skipped: two reports, 50 and 100.
C13_Witness ==
    /\ Idle /\ Last.op = "organize" /\ Enumerated = 2
    /\ Last.result = CountResult(1)
    /\ progress[1] = <<[num |-> 50, den |-> 1], [num |-> 100, den |-> 1]>>

\* C14: constructing a FileOrganizer on a path that does not exist fails
\* with a "not found" error, on a path that exists and is no directory
\* with a "not a directory" error, and both before any other work: no
\* history file path is set, no logger is set up (no handler added, no log
\* file opened).  On a directory the construction succeeds.
C14_ConstructorChecksFirst ==
    (arg.fn = "init" /\ ret.set) =>
        LET p == arg.source_directory
            file == p \in DOMAIN arg.tree.files
            directory == p = <<>> \/ p \in arg.tree.dirs
            nothing_else == /\ ~ret.self.history_file.some
                            /\ ~ret.self.logger
                            /\ ~ret.self.progress_callback
                            /\ ret.handlers = arg.handlers
        IN  /\ (~file /\ ~directory) => (ret.error = "FileNotFoundError" /\ nothing_else)
            /\ file => (ret.error = "NotADirectoryError" /\ nothing_else)
            /\ directory => /\ ret.error = "none"
                            /\ ret.self.history_file = Destination(p \o <<HistoryName>>)
                            /\ ret.self.logger

\* The first object of the process constructed on a regular file.
C14_Witness ==
    /\ arg.fn = "init" /\ ret.set
    /\ arg.source_directory = <<(<<"d">>), (<<"g">>)>>
    /\ arg.source_directory \in DOMAIN arg.tree.files
    /\ arg.handlers = 0 /\ ret.handlers = 0
    /\ ret.error = "NotADirectoryError"

\* The history file holds no stack: it is missing, no valid JSON, or JSON
\* whose top-level value is no array.
Unusable(h) == h.kind \in {"absent", "corrupt", "object"}

\* C15: a missing history file, one holding invalid JSON and one whose
\* top-level JSON value is no array are loaded as the empty stack and raise
\* nothing: undo_organization returns 0 and touches nothing, and
\* organize_files hands to the write a stack holding its own batch alone,
\* which is what the file holds afterwards when the write succeeds.
C15_UnusableHistoryIsEmpty ==
    /\ (Idle /\ Last.op = "undo" /\ Unusable(Last.pre.history_file)) =>
           /\ Last.result = CountResult(0)
           /\ Untouched
    /\ (eng[1].op = "undo" /\ Unusable(eng[1].pre.history_file)) => Idle
    /\ (eng[1].op = "organize" /\ eng[1].pc = "write"
           /\ Unusable(eng[1].pre.history_file)) =>
           eng[1].history_stack = <<eng[1].current_batch_history>>
    /\ (Idle /\ Last.op = "organize" /\ Unusable(Last.pre.history_file)) =>
           /\ Last.result.kind = "ValueError" => Last.policy.sort_mode = "By Keyword"
           /\ (Last.result.kind = "count" /\ Last.result.n > 0
                  /\ Last.faulted \cap {"open", "dump"} = {}) =>
                  history_file = HistoryOf(<<Last.batch>>)

\* Files were organized over a history file that held JSON but no array.
C15_Witness ==
    /\ Idle /\ Last.op = "organize" /\ Last.result.n > 0
    /\ Last.pre.history_file = NonArrayHistory(<<OldBatch>>)
    /\ Last.faulted = {}
    /\ history_file = HistoryOf(<<Last.batch>>)

\* The positions of the last call's files (or records) with this outcome.
With(outcome) == {k \in DOMAIN Last.outcomes : Last.outcomes[k] = outcome}

\* The position of the j-th file that was moved.
NthMoved(j) ==
    CHOOSE k \in With("moved") : Cardinality({i \in With("moved") : i <= k}) = j

\* C16: organize is best-effort.  A call goes through every file it has
\* enumerated, whatever became of the files before; a file whose move
\* failed is still at its source, unchanged, and has no Move record; the
\* batch holds the files whose move succeeded, one record each in the
\* order of enumeration, the call returns their number, and the batch is
\* what a successful write puts on top of the persisted stack.
C16_OrganizeIsBestEffort ==
    /\ eng[1].pc = "files" => Len(eng[1].outcomes) = eng[1].index
    /\ (Idle /\ Last.op = "organize" /\ Last.result.kind = "count") =>
           /\ Len(Last.outcomes) = Enumerated
           /\ Len(Last.files_to_process) = Enumerated
           /\ \A k \in With("failed") :
                 LET source == <<Last.files_to_process[k]>>
                 IN  /\ IsFile(FS, source)
                     /\ files[source] = Last.pre.files[source]
                     /\ \A j \in DOMAIN Last.batch : Last.batch[j][1] # source
           /\ Len(Last.batch) = Cardinality(With("moved"))
           /\ \A j \in DOMAIN Last.batch :
                 Last.batch[j][1] = <<Last.files_to_process[NthMoved(j)]>>
           /\ Last.result = CountResult(Cardinality(With("moved")))
           /\ (Last.batch # <<>> /\ Last.faulted \cap {"open", "dump"} = {}) =>
                  PopLast(PersistedStack(history_file)) = Last.batch

\* The move of the first of two files failed and the second was moved.
C16_Witness ==
    /\ Idle /\ Last.op = "organize"
    /\ Last.outcomes = <<"failed", "moved">>
    /\ Last.result = CountResult(1)
    /\ "move" \in Last.faulted
    /\ PersistedStack(history_file) # <<>>
    /\ PopLast(PersistedStack(history_file)) = Last.batch

\* The records of the last undo in the order of their replay.
Replayed == Reversed(Last.batch)

\* The parents of the destinations that the records replayed so far by the
\* running undo were restored from.
RestoredFrom(e) ==
    {Parent(Reversed(e.last_batch)[k][2]) :
        k \in {i \in DOMAIN e.outcomes : e.outcomes[i] = "restored"}}

\* C17: undo_organization skips a record whose destination is missing or
\* whose move back fails, and goes on: every record of the popped batch is
\* attempted, the call returns the number of records restored, and the
\* cleanup set holds the parents of the destinations restored from and no
\* folder on account of a skipped record.
C17_UndoSkipsFailedRecords ==
    /\ eng[1].pc = "records" =>
           /\ Len(eng[1].outcomes) = eng[1].index
           /\ eng[1].folders_to_check = RestoredFrom(eng[1])
    /\ eng[1].pc \in {"cleanup", "save"} =>
           /\ Len(eng[1].outcomes) = Len(eng[1].last_batch)
           /\ eng[1].folders_to_check = RestoredFrom(eng[1])
    /\ (Idle /\ Last.op = "undo" /\ Last.batch # <<>>) =>
           /\ Len(Last.outcomes) = Len(Last.batch)
           /\ Last.result = CountResult(Cardinality(With("restored")))
           /\ \A k \in DOMAIN Replayed :
                 ~Exists([files |-> Last.pre.files, dirs |-> Last.pre.dirs], Replayed[k][2])
                     => Last.outcomes[k] = "failed"
           /\ \A k \in With("failed") :
                 /\ Replayed[k][2] \in DOMAIN Last.pre.files =>
                        IsFile(FS, Replayed[k][2])
                 /\ (\A j \in With("restored") :
                         Parent(Replayed[j][2]) # Parent(Replayed[k][2]))
                      => (Parent(Replayed[k][2]) \in Last.pre.dirs
                             => Parent(Replayed[k][2]) \in dirs)

\* The first record replayed failed and the one after it was restored.
C17_Witness ==
    /\ Idle /\ Last.op = "undo"
    /\ Last.outcomes = <<"failed", "restored">>
    /\ Last.result = CountResult(1)

\* The only record of the batch had lost its destination: nothing is
\* restored, and the folder is left alone.
UndoOfMissingDestination ==
    /\ Idle /\ Last.op = "undo" /\ Last.batch = OldBatch
    /\ ~IsFile([files |-> Last.pre.files, dirs |-> Last.pre.dirs], OldBatch[1][2])
    /\ Last.faulted = {}
    /\ Last.outcomes = <<"failed">>
    /\ <<OldFolder>> \in dirs

\* C18: every batch of the persisted history stack holds at least one
\* Move record, in every state a sequence of organize_files and
\* undo_organization calls reaches; so does every batch of a stack a call
\* is about to write.
C18_NoEmptyBatchPersisted ==
    /\ \A k \in DOMAIN PersistedStack(history_file) : PersistedStack(history_file)[k] # <<>>
    /\ eng[1].pc \in {"write", "save"} =>
           \A k \in DOMAIN eng[1].history_stack : eng[1].history_stack[k] # <<>>

\* An organize call went through files and moved none of them, over a
\* stack that persists a batch: nothing was added to the stack.
C18_Witness ==
    /\ Idle /\ Last.op = "organize" /\ Enumerated > 0
    /\ Last.result = CountResult(0)
    /\ Depth(Last.pre.history_file) > 0
    /\ history_file = Last.pre.history_file

\* The history file changes, during an organize call, only in the one step
\* that ends the call, after the last enumerated file was gone through, and
\* to the stack loaded with the whole batch appended (or, the write
\* failing, to a truncated file).
WrittenOnceAtTheEnd ==
    (history_file' # history_file /\ eng[1].op = "organize") =>
        /\ eng[1].pc = "write"
        /\ eng[1].index = Len(eng[1].files_to_process)
        /\ Len(eng[1].outcomes) = Len(eng[1].files_to_process)
        /\ eng'[1].pc = "idle"
        /\ history_file' \in
               {CorruptHistory,
                HistoryOf(Append(PersistedStack(history_file), eng[1].current_batch_history)),
                HistoryOf(<<eng[1].current_batch_history>>)}

\* C19: the persisted stack is never updated incrementally.  While an
\* organize_files call moves files, and until its one write, the history
\* file has the content it had when the call began; it is written once,
\* after the move of the last enumerated file was attempted, with the
\* whole batch appended at once.
C19_HistoryWrittenOnce ==
    /\ [](eng[1].op = "organize" => history_file = eng[1].pre.history_file)
    /\ [][WrittenOnceAtTheEnd]_vars

\* Two files were moved by one call and the file holds both records in one
\* batch on top of the batch it held.
C19_Witness ==
    /\ Idle /\ Last.op = "organize" /\ Len(Last.batch) = 2
    /\ Depth(Last.pre.history_file) = 1
    /\ history_file = HistoryOf(Append(PersistedStack(Last.pre.history_file), Last.batch))

\* The destinations of the records of a batch.
Destinations(batch) == {batch[k][2] : k \in DOMAIN batch}

\* The stack that a running undo found persisted.
Found == PersistedStack(eng[1].pre.history_file)

\* C20: undo is last in, first out, and scoped to one batch.  A running
\* undo_organization replays the batch that was persisted last and keeps
\* the batches before it, as they were and in their order, as the stack to
\* write back; when it has returned, every file that was not at a
\* destination of that batch is where it was, and the file holds the
\* earlier batches when the rewrite succeeded.  Successive undo calls so
\* revert the batches in the reverse of the order they were made in.
C20_UndoIsLastInFirstOut ==
    /\ eng[1].pc \in {"records", "cleanup", "save"} =>
           /\ Found # <<>>
           /\ eng[1].last_batch = Found[Len(Found)]
           /\ eng[1].history_stack = SubSeq(Found, 1, Len(Found) - 1)
    /\ (Idle /\ Last.op = "undo" /\ Last.batch # <<>>) =>
           LET before == PersistedStack(Last.pre.history_file)
           IN  /\ Last.batch = before[Len(before)]
               /\ \A q \in DOMAIN Last.pre.files :
                      q \notin Destinations(Last.batch) =>
                          (q \in DOMAIN files /\ files[q] = Last.pre.files[q])
               /\ Last.faulted \cap {"remove", "open", "dump"} = {} =>
                      PersistedStack(history_file) = SubSeq(before, 1, Len(before) - 1)
               /\ (Before.op = "undo" /\ Before.batch # <<>>
                      /\ Before.faulted \cap {"remove", "open", "dump"} = {}) =>
                      LET first == PersistedStack(Before.pre.history_file)
                      IN  /\ Len(first) >= 2
                          /\ Before.batch = first[Len(first)]
                          /\ Last.batch = first[Len(first) - 1]

\* Two undo calls after two runs: the later run was reverted first, the
\* earlier one second, and both files are back.
C20_Witness ==
    /\ Idle /\ Last.op = "undo" /\ Before.op = "undo"
    /\ Before.pre.history_file = HistoryOf(<<OlderBatch, OldBatch>>)
    /\ Before.batch = OldBatch /\ Last.batch = OlderBatch
    /\ Last.pre.history_file = HistoryOf(<<OlderBatch>>)
    /\ DOMAIN files = {<<OldName>>, <<OlderName>>}
    /\ history_file = NoHistory

\* The folders on the walks of the cleanup: the collected folders that
\* exist, and the folders above them, the managed directory left out.
Walked(folders_to_check) ==
    {d \in dirs : \E f \in folders_to_check \cap dirs : IsPrefix(d, f)}

\* What a folder holds, at any depth
Inside(f, ds, d) == {q \in (DOMAIN f) \cup ds : IsPrefix(d, q) /\ q # d}

\* The walked folders that hold nothing but walked folders: each is empty
\* once the walks below it are through.
Emptied(folders_to_check) ==
    {d \in Walked(folders_to_check) :
        Inside(files, dirs, d) \subseteq Walked(folders_to_check)}

\* The cleanup step of an undo_organization call.
CleanupStep == eng[1].pc = "cleanup" /\ eng'[1].pc = "save"

\* C21: the folder cleanup of undo_organization touches no file; a folder
\* it deletes is on the walk from the parent of a restored destination
\* upwards and holds nothing afterwards, so a folder that keeps a file or a
\* subfolder stays, and so does the managed directory, also when it is
\* itself a collected folder.  When no rmdir fails, the folders deleted
\* are exactly the walked folders that are empty once the walks below them
\* are through; when one rmdir fails, that folder and the folders above it
\* stay and every other such folder is deleted.
C21_CleanupRemovesEmptyFoldersOnly ==
    [][CleanupStep =>
         LET checked == eng[1].folders_to_check
             removed == dirs \ dirs'
         IN  /\ files' = files
             /\ dirs' \subseteq dirs
             /\ <<>> \notin removed
             /\ \A d \in removed :
                    /\ \E f \in checked : IsPrefix(d, f)
                    /\ Inside(files', dirs', d) = {}
             /\ <<>> \in checked =>
                    \A q \in DOMAIN files : Len(q) = 1 => q \in DOMAIN files'
             /\ IF "rmdir" \in eng'[1].faulted
                THEN \E stuck \in Emptied(checked) :
                        /\ removed = {d \in Emptied(checked) : ~IsPrefix(d, stuck)}
                        /\ stuck \in dirs' /\ Inside(files', dirs', stuck) = {}
                ELSE removed = Emptied(checked)
    ]_vars

\* A cleanup has deleted a collected folder and the folder above it, and
\* has stopped at the next one, which still holds a folder with a file.
C21_Witness ==
    /\ eng[1].pc = "save" /\ eng[1].op = "undo"
    /\ \E f \in eng[1].folders_to_check :
          /\ Len(f) = 3
          /\ f \notin dirs /\ Parent(f) \notin dirs
          /\ Parent(Parent(f)) \in dirs
          /\ \E q \in DOMAIN files : IsPrefix(Parent(Parent(f)), q)

\* A cleanup found the managed directory itself among the collected
\* folders and left it alone.
C21_RootCollected ==
    /\ eng[1].pc = "save" /\ eng[1].op = "undo"
    /\ <<>> \in eng[1].folders_to_check

\* A cleanup in which an rmdir failed.
C21_DeletionFailed ==
    /\ eng[1].pc = "save" /\ eng[1].op = "undo"
    /\ "rmdir" \in eng[1].faulted

-----------------------------------------------------------------------------
(* Properties of the specification of two instances, SpecTwo               *)

\* The call of engine i returns in this step.
Returns(i) == done'[i] # done[i]

\* The summary is that of an organize_files call that moved files and met
\* no I/O error on the history file.
SavedBatch(call) ==
    /\ call.op = "organize" /\ call.batch # <<>>
    /\ call.faulted \cap {"read", "open", "dump"} = {}

\* Both instances have made one organize_files call each, both moved files
\* and met no I/O error on the history file.
BothMoved ==
    /\ calls = 2
    /\ \A i \in Engines : eng[i].pc = "idle" /\ SavedBatch(done[i])

\* C22: two engine instances on one directory.  A call that moved files and
\* overlapped with no call of the other instance leaves, when it returns,
\* the stack it found with its batch on top; after two such calls the file
\* holds the stack the first one found, then the batch of the first, then
\* the batch of the second: no batch is lost when calls are serialized.
\* (The lost update of interleaved calls is the state C22_Witness.)
C22_SerializedCallsLoseNoBatch ==
    /\ [][\A i \in Engines :
            (Returns(i) /\ SavedBatch(done'[i]) /\ ~done'[i].overlapped) =>
                history_file' = HistoryOf(Append(PersistedStack(done'[i].pre.history_file),
                                                 done'[i].batch))]_vars
    /\ []((BothMoved /\ \A i \in Engines : ~done[i].overlapped) =>
             \E i, j \in Engines :
                /\ i # j
                /\ history_file =
                      HistoryOf(PersistedStack(done[i].pre.history_file)
                                    \o <<done[i].batch, done[j].batch>>))

\* The lost update: two interleaved calls have both moved files and have
\* both written the history file, one after the other and without an I/O
\* error; the file holds the batch of instance 2 and not that of instance 1.
C22_Witness ==
    /\ BothMoved
    /\ \A i \in Engines : done[i].overlapped /\ done[i].faulted = {}
    /\ history_file.kind = "list"
    /\ \E k \in DOMAIN history_file.stack : history_file.stack[k] = done[2].batch
    /\ \A k \in DOMAIN history_file.stack : history_file.stack[k] # done[1].batch

\* Two serialized calls that have both moved files.
C22_Serialized ==
    /\ BothMoved
    /\ \A i \in Engines : ~done[i].overlapped
    /\ Depth(history_file) >= 2

-----------------------------------------------------------------------------
(* Further properties of the sequential specification Spec                 *)

\* C23: organize_files never loses persisted history.  When a call has
\* returned, the stack persisted before it is a prefix of the stack
\* persisted now: the same stack when no file was moved, that stack with
\* the new batch appended otherwise; also when reading the history file
\* raised an I/O error.  (Stated for calls whose write of the file went
\* through, which is the case the claim is about.)
C23_OrganizeKeepsHistory ==
    (Idle /\ Last.op = "organize" /\ Last.faulted \cap {"open", "dump"} = {}) =>
        LET before == PersistedStack(Last.pre.history_file)
            after == PersistedStack(history_file)
        IN  /\ Len(before) <= Len(after)
            /\ SubSeq(after, 1, Len(before)) = before
            /\ after = IF Last.batch = <<>> THEN before ELSE Append(before, Last.batch)

\* The regular files that are immediate children of the managed directory
\* in the tree f, by name.
ImmediateFiles(f) == {Name(q) : q \in TopFiles(f)}

\* What the call with the locals or the summary c was given to work on.
ConsidersOwnFilesOnly(c) ==
    /\ \A k \in DOMAIN c.files_to_process :
          /\ c.files_to_process[k] \in ImmediateFiles(c.pre.files)
          /\ c.files_to_process[k] \notin {HistoryName, ConfigName}
          /\ \A l \in DOMAIN c.files_to_process :
                c.files_to_process[l] = c.files_to_process[k] => l = k
    /\ c.files_to_process # <<>> =>
          {c.files_to_process[k] : k \in DOMAIN c.files_to_process}
              = ImmediateFiles(c.pre.files) \ {HistoryName, ConfigName}

\* What the call has left where it was, so far.
LeavesTheRestAlone(c) ==
    /\ \A q \in DOMAIN c.pre.files :
          (Len(q) > 1 \/ Name(q) = ConfigName) =>
              (q \in DOMAIN files /\ files[q] = c.pre.files[q])
    /\ c.pre.dirs \subseteq dirs
    /\ \A q \in DOMAIN files :
          q \notin DOMAIN c.pre.files =>
              \E name \in ImmediateFiles(c.pre.files) \ {HistoryName, ConfigName} :
                  Name(q) = name /\ <<name>> \notin DOMAIN files

\* C24: organize_files works on the immediate children of the managed
\* directory that are regular files and are named neither
\* .organizer_history.json nor .organizer_config.json, on each of them
\* once.  While the call runs and when it has returned, every file that
\* was inside a subfolder and the configuration file are where they were,
\* every subfolder is still there, every file that is at a new place is
\* one of the files collected, gone from the top, and every record of the
\* batch has such a file as its source.
C24_OrganizeTakesImmediateFilesOnly ==
    /\ eng[1].op = "organize" =>
          /\ ConsidersOwnFilesOnly(eng[1])
          /\ LeavesTheRestAlone(eng[1])
          /\ eng[1].pc # "write" => history_file = eng[1].pre.history_file
    /\ (Idle /\ Last.op = "organize") =>
          /\ ConsidersOwnFilesOnly(Last)
          /\ LeavesTheRestAlone(Last)
          /\ \A k \in DOMAIN Last.batch :
                /\ Len(Last.batch[k][1]) = 1
                /\ Name(Last.batch[k][1]) \in
                       ImmediateFiles(Last.pre.files) \ {HistoryName, ConfigName}

\* An organize_files call has moved both files of a directory that also
\* held the history file, the configuration file and a folder with a file.
C24_Witness ==
    /\ Idle /\ Last.op = "organize" /\ Len(Last.batch) = 2
    /\ <<ConfigName>> \in DOMAIN Last.pre.files
    /\ Last.pre.history_file.kind = "list"
    /\ <<OldFolder, OldName>> \in DOMAIN Last.pre.files
    /\ TopFiles(files) = {<<ConfigName>>}
    /\ <<OldFolder, OldName>> \in DOMAIN files

-----------------------------------------------------------------------------
(* Further properties of the pure functions, under SpecPure                *)

\* The pieces of group i of the keyword string, in the order written
Pieces(groups, i) == Split(groups[i], ",")

\* The places <<i, j>> at which the keyword string names `key`: piece j of
\* group i, stripped and lowercased.
PlacesOf(groups, key) ==
    {pl \in UNION {{<<i, j>> : j \in DOMAIN Pieces(groups, i)} : i \in DOMAIN groups} :
        Lower(Strip(Pieces(groups, pl[1])[pl[2]])) = key}

\* Place a comes before place b in the keyword string.
ComesBefore(a, b) == a[1] < b[1] \/ (a[1] = b[1] /\ a[2] < b[2])

\* The place at which `key` is named first
FirstPlace(groups, key) ==
    CHOOSE a \in PlacesOf(groups, key) :
        \A b \in PlacesOf(groups, key) : a = b \/ ComesBefore(a, b)

\* The group that names `key` last
LastGroup(groups, key) ==
    CHOOSE i \in {pl[1] : pl \in PlacesOf(groups, key)} :
        \A pl \in PlacesOf(groups, key) : pl[1] <= i

\* key occurs in text as a run of consecutive characters.
OccursIn(key, text) ==
    \E at \in 1..(Len(text) - Len(key) + 1) :
        \A k \in DOMAIN key : text[at + k - 1] = key[k]

\* C25: By Keyword a file whose lowercase name contains a keyword goes to
\* the folder of the matching keyword that the rule strings name first (the
\* folder being that of the last group naming it), and a Move record is
\* made; a file whose name contains no keyword stays where it is, no
\* record is made and no folder is created.
C25_FirstMatchingKeywordDecides ==
    (arg.fn = "organize_by_keyword" /\ ret.set /\ ret.error = "none") =>
        LET groups == StrippedParts(arg.keyword_rules)
            folders == StrippedParts(arg.folder_rules)
            keys == UNION {KeysOfGroup(groups[i]) : i \in DOMAIN groups}
            matching == {key \in keys : OccursIn(key, Lower(arg.name))}
        IN  IF matching = {}
            THEN /\ ret.tree = arg.tree
                 /\ ret.batch = <<>>
            ELSE LET first == CHOOSE key \in matching : \A other \in matching :
                                  key = other \/ ComesBefore(FirstPlace(groups, key),
                                                             FirstPlace(groups, other))
                     folder == folders[LastGroup(groups, first)]
                 IN  /\ DOMAIN ret.tree.files = {<<folder, arg.name>>}
                     /\ ret.tree.dirs = {<<folder>>}
                     /\ ret.batch = << <<(<<arg.name>>), <<folder, arg.name>> >> >>

\* "B;a" with "X;Y" and the file "aB": both keywords match, "b" was
\* inserted first and "a" sorts first; the file is in X.
C25_Witness ==
    /\ arg.fn = "organize_by_keyword" /\ ret.set
    /\ arg.keyword_rules = <<"B",";","a">>
    /\ arg.name = <<"a","B">>
    /\ DOMAIN ret.tree.files = {<< <<"X">>, <<"a","B">> >>}

\* A file that no keyword matches was left alone.
C25_Skipped ==
    /\ arg.fn = "organize_by_keyword" /\ ret.set /\ ret.error = "none"
    /\ arg.name = <<".","c">>
    /\ arg.keyword_rules = <<"B",";","a">>
    /\ ret.tree = arg.tree /\ ret.batch = <<>>

-----------------------------------------------------------------------------
(* Further properties of the sequential specification Spec                 *)

\* The last two calls were organize_files calls with the same arguments,
\* the first of which returned a count and had no move fail; nothing else
\* has touched the directory (Spec has no other actor).
OrganizeRepeated ==
    /\ Idle
    /\ Before.op = "organize" /\ Last.op = "organize"
    /\ Last.policy = Before.policy
    /\ Before.result.kind = "count"
    /\ \A k \in DOMAIN Before.outcomes : Before.outcomes[k] # "failed"

\* C26: organize is idempotent with respect to history.  The immediate
\* repetition of an organize_files call in which no move failed moves no
\* file, returns 0 and leaves the persisted stack and the directory tree as
\* they were.
C26_OrganizeIsIdempotent ==
    OrganizeRepeated =>
        /\ Last.result = CountResult(0)
        /\ Last.batch = <<>>
        /\ files = Last.pre.files
        /\ dirs = Last.pre.dirs
        /\ PersistedStack(history_file) = PersistedStack(Last.pre.history_file)

\* The same for calls whose rules name no folder that is blank after
\* trimming (the rule strings C8 is about).
C26_IdempotentForNamedFolders ==
    (/\ OrganizeRepeated
     /\ \A k \in DOMAIN StrippedParts(Last.policy.folder_rules) :
           StrippedParts(Last.policy.folder_rules)[k] # <<>>) =>
        /\ Last.result = CountResult(0)
        /\ Last.batch = <<>>
        /\ files = Last.pre.files
        /\ dirs = Last.pre.dirs
        /\ PersistedStack(history_file) = PersistedStack(Last.pre.history_file)

\* A repetition that had nothing left to move.
C26_Repeated ==
    /\ OrganizeRepeated
    /\ Len(Before.batch) = 2
    /\ Last.result = CountResult(0)
    /\ history_file = Last.pre.history_file
    /\ Depth(history_file) = 2

-----------------------------------------------------------------------------
(* The window serializes the engine calls                                  *)

\* The worker threads that have been started and have not ended
AliveWorkers == {i \in Engines : gui.worker[i] # "dead"}

\* The engine instances inside a call
RunningCalls == {i \in Engines : eng[i].pc # "idle"}

\* From the start of a worker until _check_thread has seen it dead
Awaited == gui.active_thread # NoThread

\* While a worker is awaited the controls are disabled, one poll is pending
\* and exactly its result is outstanding; otherwise the controls are
\* enabled and every result has been shown once, the last message being the
\* one of the last worker's engine call.
Serialized ==
    /\ Cardinality(AliveWorkers) <= 1
    /\ Cardinality(RunningCalls) <= 1
    /\ AliveWorkers \subseteq {gui.active_thread}
    /\ RunningCalls \subseteq AliveWorkers
    /\ Awaited => ~gui.controls /\ gui.timers = 1 /\ gui.started = gui.reported + 1
    /\ ~Awaited => /\ gui.controls
                   /\ gui.timers = 0
                   /\ gui.reported = gui.started
                   /\ gui.started > 0 => /\ gui.dialog.of # NoThread
                                         /\ Message(done[gui.dialog.of]) =
                                              [type |-> gui.dialog.type,
                                               n |-> gui.dialog.n]

\* C27: From the moment run_organize or run_undo starts a worker thread
\* until _check_thread observes that it has ended, the Organize and Undo
\* controls are disabled, so at most one worker thread, and at most one
\* organize or undo call, is alive at any time; once a worker has ended it
\* is observed, the controls are enabled again and its result has been
\* reported exactly once, before any other worker is started.
C27_WindowSerializesCalls ==
    /\ []Serialized
    /\ \A k \in 1..MaxCalls :
          (gui.started = k /\ Awaited /\ AliveWorkers = {}) ~>
              (gui.started = k /\ ~Awaited /\ gui.controls /\ gui.reported = k)

\* Two workers were run one after the other, an organize call that moved a
\* file and an undo call that put it back, and both results were reported.
C27_Witness ==
    /\ gui.controls
    /\ gui.started = 2
    /\ gui.reported = 2
    /\ gui.dialog.type = "Success"
    /\ done[1].op = "undo"
    /\ prev[1].op = "organize"
    /\ prev[1].result.kind = "count" /\ prev[1].result.n > 0

\* A worker has ended and the poll has not yet seen it: the controls are
\* still disabled.
C27_EndedUnobserved ==
    /\ Awaited
    /\ AliveWorkers = {}
    /\ ~gui.controls
    /\ gui.thread_result.type \in {"Success", "Info", "Error"}

\* A worker is inside its engine call while the poll keeps waiting.
C27_Polling ==
    /\ Awaited
    /\ RunningCalls = {gui.active_thread}
    /\ gui.timers = 1


====
